---- MODULE Spec2Model ----
(***************************************************************************)
(* Model of the chat server of dfrnoch/fresh: the dispatcher main loop     *)
(* (server/src/main.rs), process_room and the command handlers             *)
(* (server/src/processing.rs), the Room and User objects                   *)
(* (common/src/room.rs, common/src/user.rs), name normalisation            *)
(* (common/src/util.rs) and the listener (server/src/connection.rs).       *)
(***************************************************************************)
EXTENDS Integers, Sequences, FiniteSets, TLC

VARIABLES
  users_by_id,      \* HashMap<u64, User>
  user_ids_by_str,  \* HashMap<String, u64>
  rooms_by_id,      \* HashMap<u64, Room>
  room_ids_by_str,  \* HashMap<String, u64>
  pc,               \* position of the dispatcher thread in main / process_room
  roomz,            \* main: room ids of this iteration still to be processed
  room_id,          \* process_room: the room being processed
  user_id_list,     \* process_room: members of the snapshot still to be handled
  envs,             \* process_room: envelopes returned by the handlers
  logout_users,     \* process_room: (user id, reason) pairs marked for logout
  turns,            \* process_room: what each member's pass read and dispatched so far
  now,              \* main: Instant taken at the top of the iteration
  urecvr,           \* mpsc channel listener -> dispatcher
  new_user_id,      \* listen: the id the next session gets
  conn,             \* listen: the connection handled last, what it brought
                    \* and what was done to it
  dropped,          \* process_room: the sessions its forced logouts dropped,
                    \* with what their send buffers still held
  n_inputs,         \* number of reads so far that brought bytes or an error
  sock              \* a Sock taken by itself: its receive buffer `current`,
                    \* what was written into it and what try_get has returned

vars == <<users_by_id, user_ids_by_str, rooms_by_id, room_ids_by_str, pc,
          roomz, room_id, user_id_list, envs, logout_users, turns, now,
          urecvr, new_user_id, conn, dropped, n_inputs, sock>>

----------------------------------------------------------------------------
(* Bounds of the model *)

MaxUsers == 2     \* sessions the listener publishes
MaxChan == 1      \* sessions waiting in the channel
MaxInputs == 5    \* reads that bring bytes or an error
MaxSendBuf == 2   \* a failing write is only injected on buffers up to this size
MaxMembers == 3   \* length of a member list
MaxPending == 5   \* length of a send buffer between two turns
MaxTime == 6      \* ticks of the clock
MaxRecv == 1      \* bytes of an incomplete message in a receive buffer

----------------------------------------------------------------------------
(* Generic helpers *)

None == [t |-> "None", op |-> "", arg |-> <<>>]

Contains(s, x) == \E i \in 1..Len(s) : s[i] = x

Retain(s, x) == SelectSeq(s, LAMBDA n : n # x)

MapInsert(f, k, v) == [x \in (DOMAIN f) \cup {k} |-> IF x = k THEN v ELSE f[x]]

MapRemove(f, k) == [x \in (DOMAIN f) \ {k} |-> f[x]]

RECURSIVE Concat(_)
Concat(ss) == IF ss = <<>> THEN <<>> ELSE Head(ss) \o Concat(Tail(ss))

----------------------------------------------------------------------------
(* Names.  A string is a sequence of characters; "user" and the decimal     *)
(* rendering of a number stand for the characters they are made of.         *)

IsWhitespace(c) == c = " "

ToLowercase(c) ==
  CASE c = "A" -> "a"
    [] c = "B" -> "b"
    [] c = "G" -> "g"
    [] c = "L" -> "l"
    [] c = "E'" -> "e'"
    [] OTHER -> c

\* canonical decomposition: e-acute becomes e followed by the combining acute
Nfd(c) == IF c = "e'" THEN <<"e", "'">> ELSE <<c>>

IsAscii(c) == c \notin {"e'", "E'", "'", "ss"}

\* the decimal renderings the model uses
Numerals == {ToString(n) : n \in 100..120}

IsAlphabetic(c) == c \notin ({" ", "'"} \cup Numerals)

RECURSIVE Trim(_)
Trim(s) ==
  IF s = <<>> THEN s
  ELSE IF IsWhitespace(Head(s)) THEN Trim(Tail(s))
  ELSE IF IsWhitespace(s[Len(s)]) THEN Trim(SubSeq(s, 1, Len(s) - 1))
  ELSE s

collapse(s) ==
  LET trimmed == Trim(s)
      lowercase == [i \in 1..Len(trimmed) |-> ToLowercase(trimmed[i])]
      nfd == Concat([i \in 1..Len(lowercase) |-> Nfd(lowercase[i])])
      without_diacritics ==
        SelectSeq(nfd, LAMBDA c : IsAscii(c) \/ ~IsAlphabetic(c))
  IN SelectSeq(without_diacritics, LAMBDA c : ~IsWhitespace(c))

\* number of bytes of a character in UTF-8
Utf8Len(c) ==
  CASE c = "user" -> 4
    [] c \in Numerals -> 3
    [] c \in {"e'", "E'", "'", "ss"} -> 2
    [] OTHER -> 1

RECURSIVE StrLen(_)
StrLen(s) == IF s = <<>> THEN 0 ELSE Utf8Len(Head(s)) + StrLen(Tail(s))

\* format!("user{}", n)
UserN(n) == <<"user", ToString(n)>>

----------------------------------------------------------------------------
(* Configuration (ServerConfig), times in ticks, sizes in model bytes *)

cfg == [ time_to_ping |-> 2,
         time_to_kick |-> 4,
         max_user_name_length |-> 7,
         max_room_name_length |-> 5,
         lobby_name |-> <<"L">>,
         byte_limit |-> 2,
         byte_tick |-> 2 ]

----------------------------------------------------------------------------
(* Protocol: endpoints, envelopes, messages *)

Server == [t |-> "Server", id |-> 0]
EndUser(uid) == [t |-> "User", id |-> uid]
EndRoom(rid) == [t |-> "Room", id |-> rid]

\* an encoded server-to-client message: its variant, its tag and its data
Sndr(k, what, data) == [k |-> k, what |-> what, data |-> data]

Env(source, dest, msg) == [source |-> source, dest |-> dest, msg |-> msg]

\* a decoded client-to-server message
Rcvr(t, op, arg) == [t |-> t, op |-> op, arg |-> arg]

counts_all(m) == m.t # "None"

counts(m) == m.t \in {"Text", "Priv", "Name", "Join"}

----------------------------------------------------------------------------
(* User (common/src/user.rs) *)

User_new(new_idn, t) ==
  [ name |-> UserN(new_idn),
    idn |-> new_idn,
    idstr |-> collapse(UserN(new_idn)),
    quota_bytes |-> 0,
    last_data_time |-> t,
    last_msg_time |-> t,  \* history: when the last complete message was decoded
    quota_mark |-> "none", \* history: "at_limit" when the last counted message
                           \* left quota_bytes at byte_limit, "after" for the
                           \* counted message that follows such a one
    quota_note |-> "none", \* history: the last quota notice sent to the user,
                           \* "exceeded" or "again"
    errs |-> FALSE,       \* TRUE iff the error list is non-empty
    blocks |-> <<>>,
    send_buff |-> <<>>,
    recv_buff |-> 0 ]

\* the name is replaced and the normalized name is left as it was
set_name_only(u, new_name) == [u EXCEPT !.name = new_name]

set_name(u, new_name) == [u EXCEPT !.name = new_name, !.idstr = collapse(new_name)]

drain_byte_quota(u, amount) ==
  IF amount > u.quota_bytes
  THEN [u EXCEPT !.quota_bytes = 0]
  ELSE [u EXCEPT !.quota_bytes = @ - amount]

has_errors(u) == u.errs

deliver_msg(u, msg) == [u EXCEPT !.send_buff = Append(@, msg)]

\* slice::binary_search on v[lo..hi) (0-based): Ok(index) or Err(insertion point)
RECURSIVE binary_search(_, _, _, _)
binary_search(v, x, lo, hi) ==
  IF lo >= hi THEN [ok |-> FALSE, n |-> lo]
  ELSE LET mid == lo + ((hi - lo) \div 2) IN
       IF v[mid + 1] = x THEN [ok |-> TRUE, n |-> mid]
       ELSE IF v[mid + 1] < x THEN binary_search(v, x, mid + 1, hi)
       ELSE binary_search(v, x, lo, mid)

\* Vec::insert(n, x) and Vec::remove(n), n 0-based
Insert(v, n, x) == SubSeq(v, 1, n) \o <<x>> \o SubSeq(v, n + 1, Len(v))

Remove(v, n) == SubSeq(v, 1, n) \o SubSeq(v, n + 2, Len(v))

\* the id is put at the end of the list
\* the id is inserted at its place again, found or not
block_id_again(u, id) ==
  [user |-> [u EXCEPT !.blocks =
                Insert(@, binary_search(u.blocks, id, 0, Len(u.blocks)).n, id)],
   ret |-> TRUE]

block_id_push(u, id) ==
  IF Contains(u.blocks, id)
  THEN [user |-> u, ret |-> FALSE]
  ELSE [user |-> [u EXCEPT !.blocks = Append(@, id)], ret |-> TRUE]

block_id(u, id) ==
  LET res == binary_search(u.blocks, id, 0, Len(u.blocks)) IN
  IF res.ok
  THEN [user |-> u, ret |-> FALSE]
  ELSE [user |-> [u EXCEPT !.blocks = Insert(@, res.n, id)], ret |-> TRUE]

unblock_id(u, id) ==
  LET res == binary_search(u.blocks, id, 0, Len(u.blocks)) IN
  IF res.ok
  THEN [user |-> [u EXCEPT !.blocks = Remove(@, res.n)], ret |-> TRUE]
  ELSE [user |-> u, ret |-> FALSE]

\* every envelope is put in the outgoing buffer
User_deliver_all(u, env) == [u EXCEPT !.send_buff = Append(@, env.msg)]

User_deliver(u, env) ==
  IF env.source.t = "User" /\ binary_search(u.blocks, env.source.id, 0, Len(u.blocks)).ok
  THEN u
  ELSE [u EXCEPT !.send_buff = Append(@, env.msg)]


\* what a read from the socket brings: nothing, an I/O error, bytes of a
\* message still incomplete, or the n bytes that complete the message m
SockEvRest(e, n, m, rest) == [e |-> e, n |-> n, m |-> m, rest |-> rest]
SockEv(e, n, m) == SockEvRest(e, n, m, 0)

try_get(u, ev, t) ==
  IF ev.e = "io_error"
  THEN [user |-> [u EXCEPT !.errs = TRUE], msg |-> None]
  ELSE
    LET n_buff == u.recv_buff + ev.n IN
    IF n_buff > 0
    THEN IF ev.e = "syntax"
         THEN [user |-> [u EXCEPT !.errs = TRUE, !.recv_buff = n_buff],
               msg |-> None]
         ELSE IF ev.e = "msg"
         THEN [user |-> [u EXCEPT !.last_data_time = t,
                                  !.last_msg_time = t,
                                  !.recv_buff = ev.rest,
                                  !.quota_bytes =
                                     IF counts(ev.m) THEN @ + (n_buff - ev.rest) ELSE @,
                                  !.quota_mark =
                                     IF ~counts(ev.m) THEN @
                                     ELSE IF u.quota_bytes + (n_buff - ev.rest) = cfg.byte_limit
                                     THEN "at_limit"
                                     ELSE IF @ = "at_limit" THEN "after" ELSE "none"],
               msg |-> ev.m]
         ELSE [user |-> [u EXCEPT !.last_data_time = t, !.recv_buff = n_buff],
               msg |-> None]
    ELSE [user |-> u, msg |-> None]

----------------------------------------------------------------------------
(* Room (common/src/room.rs) *)

Room_new(id, new_name, creator_id) ==
  [ idn |-> id,
    idstr |-> collapse(new_name),
    name |-> new_name,
    users |-> <<>>,
    op |-> creator_id,
    closed |-> FALSE,
    bans |-> <<>>,
    invites |-> <<>>,
    inbox |-> <<>> ]

\* the member list is left as it was
Room_join_nowhere(room, uid) == room

Room_join(room, uid) == [room EXCEPT !.users = Append(@, uid)]

Room_leave(room, uid) == [room EXCEPT !.users = Retain(@, uid)]

\* the invitation is withdrawn and no ban is recorded
Room_ban_forget(room, uid) == [room EXCEPT !.invites = Retain(@, uid)]

\* the ban is recorded and an invitation is left in place
Room_ban_keep(room, uid) == [room EXCEPT !.bans = Append(@, uid)]

Room_ban(room, uid) ==
  [room EXCEPT !.invites = Retain(@, uid), !.bans = Append(@, uid)]

\* the invitation is recorded and a ban is left in place
Room_invite_keep(room, uid) == [room EXCEPT !.invites = Append(@, uid)]

Room_invite(room, uid) ==
  [room EXCEPT !.bans = Retain(@, uid), !.invites = Append(@, uid)]

Room_enqueue(room, env) == [room EXCEPT !.inbox = Append(@, env)]

\* nobody counts as banned
is_banned_never(room, uid) == FALSE

is_banned(room, uid) == Contains(room.bans, uid)

is_invited(room, uid) == Contains(room.invites, uid)

\* user.deliver(env) for every id of uids that is a key of uid_hash, in order
RECURSIVE deliver_each(_, _, _)
deliver_each(uids, env, uid_hash) ==
  IF uids = <<>> THEN uid_hash
  ELSE LET uid == Head(uids)
           h == IF uid \in DOMAIN uid_hash
                THEN [uid_hash EXCEPT ![uid] = User_deliver(@, env)]
                ELSE uid_hash
       IN deliver_each(Tail(uids), env, h)

\* an envelope for a user reaches them only in the room they are in
Room_deliver_inside(room, env, uid_hash) ==
  IF env.dest.t = "User"
  THEN IF Contains(room.users, env.dest.id)
       THEN deliver_each(<<env.dest.id>>, env, uid_hash)
       ELSE uid_hash
  ELSE deliver_each(room.users, env, uid_hash)

Room_deliver(room, env, uid_hash) ==
  IF env.dest.t = "User"
  THEN deliver_each(<<env.dest.id>>, env, uid_hash)
  ELSE deliver_each(room.users, env, uid_hash)

\* room.deliver for each envelope of a list, in order
RECURSIVE deliver_all(_, _, _)
deliver_all(room, env_list, uid_hash) ==
  IF env_list = <<>> THEN uid_hash
  ELSE deliver_all(room, Tail(env_list), Room_deliver(room, Head(env_list), uid_hash))

\* the users after the inbox has been delivered (the inbox itself is drained)
deliver_inbox(room, uid_hash) == deliver_all(room, room.inbox, uid_hash)


----------------------------------------------------------------------------
(* Command handlers (server/src/processing.rs).  A handler takes the        *)
(* Context and returns the Context it leaves and the Envs it returns.       *)

Result(context, env_list) == [context |-> context, envs |-> env_list]

\* one more than the number of keys, whatever the keys are
first_unused_count(map) == Cardinality(DOMAIN map)

first_free_id(map) ==
  CHOOSE n \in 0..Cardinality(DOMAIN map) :
    n \notin DOMAIN map /\ \A m \in 0..(n - 1) : m \in DOMAIN map

do_text(context) ==
  LET user == context.users_by_id[context.current_user_id]
      env == Env(EndUser(context.current_user_id),
                 EndRoom(context.current_room_id),
                 Sndr("Text", "", <<user.name>>))
  IN Result(context, <<env>>)

\* no name is ever found taken
held_by_nobody(context, new_str) == FALSE

\* the normalized name is indexed to a user other than the caller
held_by_other(context, new_str) ==
  /\ new_str \in DOMAIN context.user_ids_by_str
  /\ context.user_ids_by_str[new_str] # context.current_user_id

do_name(context, new_candidate) ==
  LET new_str == collapse(new_candidate)
      uid == context.current_user_id
      to_user(what, data) == Env(Server, EndUser(uid), Sndr("Err", what, data))
  IN
  IF new_str = <<>>
  THEN Result(context, <<to_user("Your name must have more whitespace characters.", <<>>)>>)
  ELSE IF StrLen(new_candidate) > cfg.max_user_name_length
  THEN Result(context, <<to_user("Your name cannot be longer than {} characters.", <<>>)>>)
  ELSE IF /\ new_str \in DOMAIN context.user_ids_by_str
          /\ context.user_ids_by_str[new_str] \notin DOMAIN context.users_by_id
  THEN Result(context, <<>>)
  ELSE IF held_by_other(context, new_str)
  THEN Result(context,
         <<to_user("There is already a user named {}.",
                   <<context.users_by_id[context.user_ids_by_str[new_str]].name>>)>>)
  ELSE
    LET mu == context.users_by_id[uid]
        old_name == mu.name
        old_idstr == mu.idstr
        renamed == set_name(mu, new_candidate)
        new_idstr == renamed.idstr
        env == Env(Server, EndRoom(context.current_room_id),
                   Sndr("Misc", "name", <<old_name, new_candidate>>))
    IN Result([context EXCEPT
                 !.users_by_id[uid] = renamed,
                 !.user_ids_by_str = MapInsert(MapRemove(@, old_idstr), new_idstr, uid)],
              <<env>>)

do_join(context, room_name) ==
  LET normalized_room_name == collapse(room_name)
      user_id == context.current_user_id
      room_id_ == context.current_room_id
      info(what, data) == Env(Server, EndUser(user_id), Sndr("Info", what, data))
  IN
  IF normalized_room_name = <<>>
  THEN Result(context,
         <<Env(Server, EndUser(user_id),
               Sndr("Err", "A room name must have more non-whitespace characters.", <<>>))>>)
  ELSE IF StrLen(room_name) > cfg.max_room_name_length
  THEN Result(context,
         <<Env(Server, EndUser(user_id),
               Sndr("Err", "Room names cannot be longer than {} characters.", <<>>))>>)
  ELSE
    LET exists == normalized_room_name \in DOMAIN context.room_ids_by_str
        new_id == first_free_id(context.rooms_by_id)
        target_room_id ==
          IF exists THEN context.room_ids_by_str[normalized_room_name] ELSE new_id
        \* the context after the room has been looked up or created
        c1 == IF exists THEN context
              ELSE [context EXCEPT
                      !.room_ids_by_str = MapInsert(@, normalized_room_name, new_id),
                      !.rooms_by_id = MapInsert(@, new_id, Room_new(new_id, room_name, user_id)),
                      !.users_by_id[user_id] =
                          deliver_msg(@, Sndr("Info", "You create room {}.", <<room_name>>))]
        username == c1.users_by_id[user_id].name
    IN
    IF target_room_id \notin DOMAIN c1.rooms_by_id
    THEN Result(c1, <<>>)
    ELSE
      LET target_room == c1.rooms_by_id[target_room_id] IN
      IF target_room_id = room_id_
      THEN Result(c1, <<info("You are already in {}.", <<target_room.name>>)>>)
      ELSE IF is_banned(target_room, user_id)
      THEN Result(c1, <<info("You are banned from {}.", <<target_room.name>>)>>)
      ELSE IF target_room.closed /\ ~is_invited(target_room, user_id)
      THEN Result(c1, <<info("{} is closed.", <<target_room.name>>)>>)
      ELSE
        LET join_env == Env(Server, EndRoom(target_room_id),
                            Sndr("Misc", "join", <<username, target_room.name>>))
            joined == Room_enqueue(Room_join(target_room, user_id), join_env)
            c2 == [c1 EXCEPT !.rooms_by_id[target_room_id] = joined]
            leave_env == Env(Server, EndRoom(target_room_id),
                             Sndr("Misc", "leave", <<username, <<"[ moved to another room ]">>>>))
        IN Result([c2 EXCEPT !.rooms_by_id[room_id_] = Room_leave(@, user_id)],
                  <<leave_env>>)

do_priv(context, who) ==
  LET uid == context.current_user_id
      recipient == collapse(who)
      target_user_id == context.user_ids_by_str[recipient]
      to_user(what, data) == Env(Server, EndUser(uid), Sndr("Err", what, data))
  IN
  IF recipient = <<>>
  THEN Result(context,
         <<to_user("The recipient name must have at least one non-whitespace character.", <<>>)>>)
  ELSE IF recipient \notin DOMAIN context.user_ids_by_str
  THEN Result(context, <<to_user("The recipient name {} is not recognized.", <<recipient>>)>>)
  ELSE IF target_user_id \notin DOMAIN context.users_by_id
  THEN Result(context, <<>>)
  ELSE
    LET user == context.users_by_id[uid]
        target_user == context.users_by_id[target_user_id]
        echo_env == Env(Server, EndUser(uid),
                        Sndr("Misc", "priv_echo", <<target_user.name>>))
        to_env == Env(EndUser(uid), EndUser(target_user_id),
                      Sndr("Priv", "", <<user.name>>))
    IN Result(context, <<echo_env, to_env>>)

do_block(context, username) ==
  LET uid == context.current_user_id
      normalized_username == collapse(username)
      othe_user_id == context.user_ids_by_str[normalized_username]
      to_user(k, what, data) == Env(Server, EndUser(uid), Sndr(k, what, data))
  IN
  IF normalized_username = <<>>
  THEN Result(context,
         <<to_user("Err", "A user name must have more non-whitespace characters.", <<>>)>>)
  ELSE IF normalized_username \notin DOMAIN context.user_ids_by_str
  THEN Result(context,
         <<to_user("Info", "No users matching the pattern {}.", <<normalized_username>>)>>)
  ELSE IF othe_user_id = uid
  THEN Result(context, <<to_user("Err", "You shouldn't block yourself.", <<>>)>>)
  ELSE IF othe_user_id \notin DOMAIN context.users_by_id
  THEN Result(context, <<>>)
  ELSE
    LET blocked_name == context.users_by_id[othe_user_id].name
        could_block == block_id(context.users_by_id[uid], othe_user_id)
        reply == IF could_block.ret
                 THEN Sndr("Info", "You are now blocking {}.", <<blocked_name>>)
                 ELSE Sndr("Err", "You are already blocking {}.", <<blocked_name>>)
    IN Result([context EXCEPT !.users_by_id[uid] = deliver_msg(could_block.user, reply)],
              <<>>)

do_unblock(context, username) ==
  LET uid == context.current_user_id
      normalized_username == collapse(username)
      other_user_id == context.user_ids_by_str[normalized_username]
      to_user(k, what, data) == Env(Server, EndUser(uid), Sndr(k, what, data))
  IN
  IF normalized_username = <<>>
  THEN Result(context, <<to_user("Err", "That cannot be anyone's user name.", <<>>)>>)
  ELSE IF normalized_username \notin DOMAIN context.user_ids_by_str
  THEN Result(context,
         <<to_user("Info", "No users matching the pattern {}.", <<normalized_username>>)>>)
  ELSE IF other_user_id = uid
  THEN Result(context,
         <<to_user("Err", "You couldn't block yourself; you can't unblock yourself.", <<>>)>>)
  ELSE IF other_user_id \notin DOMAIN context.users_by_id
  THEN Result(context, <<>>)
  ELSE
    LET blocked_name == context.users_by_id[other_user_id].name
        could_unblock == unblock_id(context.users_by_id[uid], other_user_id)
        reply == IF could_unblock.ret
                 THEN Sndr("Info", "You are no longer blocking {}.", <<blocked_name>>)
                 ELSE Sndr("Err", "You are not blocking {}.", <<blocked_name>>)
    IN Result([context EXCEPT !.users_by_id[uid] = deliver_msg(could_unblock.user, reply)],
              <<>>)

do_logout(context) ==
  LET uid == context.current_user_id
      rid == context.current_room_id
      left == Room_leave(context.rooms_by_id[rid], uid)
      user == context.users_by_id[uid]
      env == Env(Server, EndRoom(rid), Sndr("Misc", "leave", <<user.name, <<"salutation">>>>))
  IN Result([context EXCEPT
               !.rooms_by_id[rid] = Room_enqueue(left, env),
               !.users_by_id = MapRemove(@, uid),
               !.user_ids_by_str = MapRemove(@, user.idstr)],
            <<>>)


\* v.iter().rev() collected
Reverse(v) == [i \in 1..Len(v) |-> v[Len(v) + 1 - i]]

\* the names of the ids of uids, in order, that are not op_id and are keys
\* of uid_hash (names_list of do_query, with the loop's `if` and `match`)
RECURSIVE names_of(_, _, _)
names_of(uids, op_id, uid_hash) ==
  IF uids = <<>> THEN <<>>
  ELSE IF Head(uids) # op_id /\ Head(uids) \in DOMAIN uid_hash
  THEN <<uid_hash[Head(uids)].name>> \o names_of(Tail(uids), op_id, uid_hash)
  ELSE names_of(Tail(uids), op_id, uid_hash)

\* the data of the roster: the members from last to first without the
\* operator, the operator pushed last unless the id is 0, all reversed
names_ref(context) ==
  LET current_room == context.rooms_by_id[context.current_room_id]
      op_id == current_room.op
      names_list == names_of(Reverse(current_room.users), op_id, context.users_by_id)
      op_name == IF op_id \in DOMAIN context.users_by_id
                 THEN context.users_by_id[op_id].name
                 ELSE <<"[ ??? ]">>
  IN IF op_id = 0 THEN Reverse(names_list)
     ELSE Reverse(Append(names_list, op_name))

\* the kinds "roster" and the unknown ones; "addr", "who" and "rooms" are
\* sent by no specification and have no branch here
do_query(context, what, arg) ==
  LET to_user(k, wh, data) == Env(Server, EndUser(context.current_user_id), Sndr(k, wh, data))
  IN
  CASE what = "roster" -> Result(context, <<to_user("Misc", "roster", names_ref(context))>>)
    [] what \notin {"addr", "roster", "who", "rooms"}
         -> Result(context, <<to_user("Err", "Unknown Query type: {}.", <<what>>)>>)

\* every member passes for the operator
is_member(room, uid) == Contains(room.users, uid)

\* every user passes for the operator
is_operator_anyone(room, uid) == TRUE

\* the test at the top of do_op: uid is the operator of the room
is_operator(room, uid) == room.op = uid

\* whoever is named may take the room
has_any_user(room, uid) == TRUE

\* room.get_users().contains(&uid)
has_user(room, uid) == Contains(room.users, uid)

do_op(context, op, arg) ==
  LET user_id == context.current_user_id
      room_id_ == context.current_room_id
      current_room == context.rooms_by_id[room_id_]
      op_name == context.users_by_id[user_id].name
      to_user(k, what, data) == Env(Server, EndUser(user_id), Sndr(k, what, data))
      to_room(k, what, data) == Env(Server, EndRoom(room_id_), Sndr(k, what, data))
      normalized_username == collapse(arg)
      known == normalized_username \in DOMAIN context.user_ids_by_str
      other_user_id == context.user_ids_by_str[normalized_username]
      other_user == context.users_by_id[other_user_id]
  IN
  IF ~is_operator(current_room, user_id)
  THEN Result(context, <<to_user("Err", "You are not the operator of this Room.", <<>>)>>)
  ELSE IF op = "Open"
  THEN IF current_room.closed
       THEN Result([context EXCEPT !.rooms_by_id[room_id_].closed = FALSE],
                   <<to_room("Info", "{} has opened {}.", <<op_name, current_room.name>>)>>)
       ELSE Result(context, <<to_user("Info", "{} is already open.", <<current_room.name>>)>>)
  ELSE IF op = "Close"
  THEN IF current_room.closed
       THEN Result(context, <<to_user("Info", "{} is already closed.", <<current_room.name>>)>>)
       ELSE Result([context EXCEPT !.rooms_by_id[room_id_].closed = TRUE],
                   <<to_room("Info", "{} has closed {}.", <<op_name, current_room.name>>)>>)
  ELSE IF op = "Give"
  THEN IF normalized_username = <<>>
       THEN Result(context, <<to_user("Err", "That cannot be anyone's user name.", <<>>)>>)
       ELSE IF ~known
       THEN Result(context, <<to_user("Info", "No users matching the pattern {}.", <<normalized_username>>)>>)
       ELSE IF other_user_id = user_id
       THEN Result(context, <<to_user("Info", "You are already the operator of this room.", <<>>)>>)
       ELSE IF other_user_id \notin DOMAIN context.users_by_id
       THEN Result(context, <<>>)
       ELSE IF ~has_user(current_room, other_user_id)
       THEN Result(context, <<to_user("Info", "{} must be in the room to transfer ownership.", <<other_user.name>>)>>)
       ELSE Result([context EXCEPT !.rooms_by_id[room_id_].op = other_user_id],
                   <<to_room("Misc", "new_op", <<other_user.name, current_room.name>>)>>)
  ELSE IF op = "Invite"
  THEN IF normalized_username = <<>>
       THEN Result(context, <<to_user("Info", "That cannot be anyone's user name.", <<>>)>>)
       ELSE IF ~known
       THEN Result(context, <<to_user("Info", "No users matching the pattern {}.", <<normalized_username>>)>>)
       ELSE IF other_user_id = user_id
       THEN Result(context, <<to_user("Info", "You are already allowed in {}.", <<current_room.name>>)>>)
       ELSE IF other_user_id \notin DOMAIN context.users_by_id
       THEN Result(context, <<>>)
       ELSE IF is_invited(current_room, other_user_id)
       THEN Result(context, <<to_user("Info", "{} has already been invited to {}.", <<other_user.name, current_room.name>>)>>)
       ELSE
         LET invited == Room_invite(current_room, other_user_id) IN
         IF Contains(invited.users, other_user_id)
         THEN Result([context EXCEPT
                        !.rooms_by_id[room_id_] = invited,
                        !.users_by_id[other_user_id] =
                           deliver_msg(@, Sndr("Info", "You have been invited to return to {} even if it closes.", <<current_room.name>>))],
                     <<to_user("Info", "{} may now return to {} even when closed.", <<other_user.name, current_room.name>>)>>)
         ELSE Result([context EXCEPT
                        !.rooms_by_id[room_id_] = invited,
                        !.users_by_id[other_user_id] =
                           deliver_msg(@, Sndr("Info", "You have been invited to join {}.", <<current_room.name>>))],
                     <<to_user("Info", "You invite {} to join {}.", <<other_user.name, current_room.name>>)>>)
  ELSE \* op = "Kick"
       IF normalized_username = <<>>
       THEN Result(context, <<to_user("Info", "That cannot be anyone's user name.", <<>>)>>)
       ELSE IF ~known
       THEN Result(context, <<to_user("Info", "No users matching the pattern {}.", <<normalized_username>>)>>)
       ELSE IF other_user_id = user_id
       THEN Result(context, <<to_user("Info", "You cannot kick yourself.", <<>>)>>)
       ELSE IF other_user_id \notin DOMAIN context.users_by_id
       THEN Result(context, <<>>)
       ELSE IF is_banned(current_room, other_user_id)
       THEN Result(context, <<to_user("Info", "{} is already banned from {}.", <<other_user.name, current_room.name>>)>>)
       ELSE
         LET banned == Room_ban(current_room, other_user_id)
             in_room == Contains(banned.users, other_user_id)
             c1 == [context EXCEPT !.rooms_by_id[room_id_] = banned]
         IN
         IF ~in_room /\ ~Contains(banned.users, other_user_id)
         THEN Result(c1, <<to_user("Info", "You have banned {} from {}.", <<other_user.name, current_room.name>>)>>)
         ELSE
           LET current_room_name == IF in_room THEN current_room.name ELSE <<>>
               c2 == IF in_room
                     THEN [c1 EXCEPT
                             !.users_by_id[other_user_id] =
                                deliver_msg(@, Sndr("Misc", "kick_you", <<current_room.name>>)),
                             !.rooms_by_id[room_id_] = Room_leave(@, other_user_id)]
                     ELSE c1
               lobby == c2.rooms_by_id[0]
               to_lobby == Env(Server, EndRoom(room_id_),
                               Sndr("Misc", "join", <<other_user.name, lobby.name>>))
           IN Result([c2 EXCEPT !.rooms_by_id[0] =
                                   Room_enqueue(Room_join(lobby, other_user_id), to_lobby)],
                     <<to_room("Misc", "kick_other", <<other_user.name, current_room_name>>)>>)

\* the dispatch on the kind of the received message
dispatch(context, m) ==
  CASE m.t = "Text" -> do_text(context)
    [] m.t = "Priv" -> do_priv(context, m.arg)
    [] m.t = "Name" -> do_name(context, m.arg)
    [] m.t = "Block" -> do_block(context, m.arg)
    [] m.t = "Unblock" -> do_unblock(context, m.arg)
    [] m.t = "Join" -> do_join(context, m.arg)
    [] m.t = "Logout" -> do_logout(context)
    [] m.t = "Query" -> do_query(context, m.op, m.arg)
    [] m.t = "Op" -> do_op(context, m.op, m.arg)
    [] OTHER -> Result(context, <<>>)


----------------------------------------------------------------------------
(* process_room (server/src/processing.rs) *)

\* the messages of the envelopes of env_list that are addressed to a room
RECURSIVE room_visible(_)
room_visible(env_list) ==
  IF env_list = <<>> THEN <<>>
  ELSE IF Head(env_list).dest.t = "Room"
  THEN <<Head(env_list).msg>> \o room_visible(Tail(env_list))
  ELSE room_visible(Tail(env_list))

\* what the handler called for msg on behalf of user_id has produced for the
\* room being processed: the envelopes it returned and the ones it enqueued
Turn(user_id, msg, before, res) ==
  LET rid == before.current_room_id
      inbox0 == before.rooms_by_id[rid].inbox
      inbox1 == res.context.rooms_by_id[rid].inbox
  IN [ uid |-> user_id,
       msg |-> msg,
       returned |-> room_visible(res.envs),
       enqueued |-> room_visible(SubSeq(inbox1, Len(inbox0) + 1, Len(inbox1))) ]

\* what one pass of the member loop read from the socket: the bytes that
\* arrived and the message that was decoded (None when there was none)
Read(ev, got) == [n |-> ev.n, got |-> got.msg]

\* a pass of the member loop that ends in `continue` dispatches nothing
Skipped(user_id) ==
  [uid |-> user_id, msg |-> None, returned |-> <<>>, enqueued |-> <<>>]

\* no counter is ever found above the limit
never_above_limit(user) == FALSE

\* the counter has reached the limit (the comparison made one too early)
at_byte_limit(user) == user.quota_bytes >= cfg.byte_limit

\* user.get_byte_quota() > cfg.byte_limit
above_byte_limit(user) == user.quota_bytes > cfg.byte_limit

\* the body of the loop over the member snapshot, for one member:
\* f is the frame [context, envs, logout_users] of process_room
member_turn(f, user_id, ev, current_time) ==
  IF user_id \notin DOMAIN f.context.users_by_id
  THEN f
  ELSE
    LET user0 == f.context.users_by_id[user_id]
        over_quota == above_byte_limit(user0)
        drained == drain_byte_quota(user0, cfg.byte_tick)
        user1 == IF over_quota /\ ~above_byte_limit(drained)
                 THEN [deliver_msg(drained, Sndr("Err", "You may send messages again.", <<>>))
                         EXCEPT !.quota_note = "again"]
                 ELSE drained
        got == try_get(user1, ev, current_time)
        user2 == got.user
    IN
    IF got.msg = None
    THEN
      LET x == current_time - user2.last_data_time IN
      IF x > cfg.time_to_kick
      THEN [f EXCEPT !.context.users_by_id[user_id] = user2,
                     !.logout_users = Append(@, <<user_id,
                        "Too long since server received data from the client.">>),
                     !.turns = Append(@, Skipped(user_id) @@ Read(ev, got))]
      ELSE IF x > cfg.time_to_ping
      THEN [f EXCEPT !.context.users_by_id[user_id] =
                        deliver_msg(user2, Sndr("Ping", "", <<>>)),
                     !.turns = Append(@, Skipped(user_id) @@ Read(ev, got))]
      ELSE [f EXCEPT !.context.users_by_id[user_id] = user2,
                     !.turns = Append(@, Skipped(user_id) @@ Read(ev, got))]
    ELSE IF over_quota
    THEN [f EXCEPT !.context.users_by_id[user_id] = user2,
                   !.turns = Append(@, Skipped(user_id) @@ Read(ev, got))]
    ELSE
      LET user3 == IF above_byte_limit(user2)
                   THEN [deliver_msg(user2, Sndr("Err", "You have exceeded your data quota.", <<>>))
                           EXCEPT !.quota_note = "exceeded"]
                   ELSE user2
          logouts == IF has_errors(user3)
                     THEN Append(f.logout_users, <<user_id, "Communication error.">>)
                     ELSE f.logout_users
          context == [f.context EXCEPT !.users_by_id[user_id] = user3,
                                       !.current_user_id = user_id]
          res == dispatch(context, got.msg)
      IN [context |-> res.context,
          envs |-> f.envs \o res.envs,
          logout_users |-> logouts,
          turns |-> Append(f.turns, Turn(user_id, got.msg, context, res) @@ Read(ev, got)),
          dropped |-> f.dropped]

\* the loop over logout_users that removes the sessions marked for logout
\* a User that goes out of scope: the stream is closed, what its send
\* buffer holds is never written
User_drop(u) == [idn |-> u.idn, unsent |-> u.send_buff]

RECURSIVE forced_logouts(_, _)
forced_logouts(f, logouts) ==
  IF logouts = <<>> THEN f
  ELSE
    LET user_id == Head(logouts)[1] IN
    IF user_id \in DOMAIN f.context.users_by_id
    THEN
      LET user == deliver_msg(f.context.users_by_id[user_id],
                              Sndr("Logout", Head(logouts)[2], <<>>))
          env == Env(Server, EndRoom(f.context.current_room_id),
                     Sndr("Misc", "leave", <<user.name, <<"[ disconnected by server ]">>>>))
      IN forced_logouts(
           [f EXCEPT !.context.users_by_id = MapRemove(@, user_id),
                     !.context.user_ids_by_str = MapRemove(@, user.idstr),
                     !.envs = Append(@, env),
                     !.dropped = Append(@, User_drop(user))],
           Tail(logouts))
    ELSE forced_logouts(f, Tail(logouts))

\* "Change the room OP if necessary."
op_succession(f) ==
  LET rid == f.context.current_room_id
      room == f.context.rooms_by_id[rid]
      op_still_here == Contains(room.users, room.op)
  IN
  IF rid # 0 /\ ~op_still_here /\ room.users # <<>>
        /\ room.users[1] \in DOMAIN f.context.users_by_id
  THEN
    LET nid == room.users[1]
        env == Env(Server, EndRoom(rid),
                   Sndr("Info", "{} is now the Room operator.",
                        <<f.context.users_by_id[nid].name>>))
    IN [f EXCEPT !.context.rooms_by_id[rid].op = nid, !.envs = Append(@, env)]
  ELSE f

RECURSIVE leave_all(_, _)
leave_all(room, logouts) ==
  IF logouts = <<>> THEN room
  ELSE leave_all(Room_leave(room, Head(logouts)[1]), Tail(logouts))

\* the last block up to the delivery of the envelopes
deliver_phase(f) ==
  LET rid == f.context.current_room_id
      room == leave_all(f.context.rooms_by_id[rid], f.logout_users)
      after_inbox == deliver_inbox(room, f.context.users_by_id)
      after_envs == deliver_all(room, f.envs, after_inbox)
  IN [f EXCEPT !.context.rooms_by_id[rid] = [room EXCEPT !.inbox = <<>>],
               !.context.users_by_id = after_envs,
               !.logout_users = <<>>]

\* the part of process_room after the loop over the members
process_room_tail(f) == deliver_phase(op_succession(forced_logouts(f, f.logout_users)))


----------------------------------------------------------------------------
(* The listener thread (server/src/connection.rs) *)

\* what user.blocking_get(5 s) returns: the first message decoded, or the
\* error (a failed read, bytes that are no message, the deadline passed)
Ok(m) == [ok |-> TRUE, m |-> m, err |-> ""]
Err(e) == [ok |-> FALSE, m |-> None, err |-> e]

\* User::logout: the Logout is queued and written, the socket shut down
User_logout(u, logout_message) ==
  deliver_msg(u, Sndr("Logout", logout_message, <<>>))

\* the negotiation that lets every first message pass for a Name
initial_negotiation_any(user, first) ==
  IF ~first.ok
  THEN [user |-> User_logout(user, "Error reading initial Name message."),
        ok |-> FALSE]
  ELSE [user |-> set_name(user, first.m.arg), ok |-> TRUE]

initial_negotiation(user, first) ==
  IF ~first.ok
  THEN [user |-> User_logout(user, "Error reading initial Name message."),
        ok |-> FALSE]
  ELSE IF first.m.t = "Name"
  THEN [user |-> set_name(user, first.m.arg), ok |-> TRUE]
  ELSE [user |-> User_logout(user, "Protocol error: Initial message should be of type Name."),
        ok |-> FALSE]

\* the id advances whatever the negotiation gave
next_id_always(id, negotiated) == id + 1

\* new_user_id += 1 only where the User went through the channel
next_id(id, negotiated) == IF negotiated THEN id + 1 ELSE id

\* one turn of the loop over listener.incoming(): the connection gets a
\* User with the id new_user_id; after a good negotiation the User is sent
\* through the channel and the id advances, otherwise the User is dropped
\* (the channel of the code is unbounded and its receiver lives as long as
\* main, so tx.send does not fail)
AcceptChan(first, max_users, max_conns, max_chan) ==
  /\ new_user_id < 100 + max_users
  /\ conn.n < max_conns
  /\ Len(urecvr) < max_chan
  /\ LET neg == initial_negotiation(User_new(new_user_id, now), first) IN
     /\ conn' = [ n |-> conn.n + 1,
                  idn |-> new_user_id,
                  first |-> first,
                  sent |-> neg.user.send_buff,
                  shutdown |-> ~neg.ok ]
     /\ urecvr' = IF neg.ok THEN Append(urecvr, neg.user) ELSE urecvr
     /\ new_user_id' = next_id(new_user_id, neg.ok)
  /\ UNCHANGED <<sock, users_by_id, user_ids_by_str, rooms_by_id, room_ids_by_str, pc,
                 roomz, room_id, user_id_list, envs, logout_users, turns, now,
                 dropped, n_inputs>>

Accept(first, max_users, max_conns) == AcceptChan(first, max_users, max_conns, MaxChan)

\* a connection whose first message is Name(new_name)
Listen(new_name, max_users) == Accept(Ok(Rcvr("Name", "", new_name)), max_users, max_users)

----------------------------------------------------------------------------
(* The dispatcher thread: main (server/src/main.rs) and process_room *)

Frame ==
  [ context |-> [ users_by_id |-> users_by_id,
                  user_ids_by_str |-> user_ids_by_str,
                  rooms_by_id |-> rooms_by_id,
                  room_ids_by_str |-> room_ids_by_str,
                  current_room_id |-> room_id,
                  current_user_id |-> 0 ],
    envs |-> envs,
    logout_users |-> logout_users,
    turns |-> turns,
    dropped |-> dropped ]

\* the variables take the values of the frame f
Store(f) ==
  /\ users_by_id' = f.context.users_by_id
  /\ user_ids_by_str' = f.context.user_ids_by_str
  /\ rooms_by_id' = f.context.rooms_by_id
  /\ room_ids_by_str' = f.context.room_ids_by_str
  /\ envs' = f.envs
  /\ logout_users' = f.logout_users
  /\ turns' = f.turns
  /\ dropped' = f.dropped

\* top of the main loop: the clock is read and the room ids are collected
LoopStart(dt) ==
  /\ pc = "loop"
  /\ now + dt <= MaxTime
  /\ now' = now + dt
  /\ roomz' = DOMAIN rooms_by_id
  /\ pc' = "rooms"
  /\ UNCHANGED <<sock, users_by_id, user_ids_by_str, rooms_by_id, room_ids_by_str,
                 room_id, user_id_list, envs, logout_users, turns,
                 urecvr, new_user_id, conn, dropped, n_inputs>>

\* process_room is entered for one of the collected ids (a HashMap gives
\* them in no particular order) and takes the snapshot of the members
ProcessRoomBegin(rid) ==
  /\ pc = "rooms"
  /\ rid \in roomz
  /\ roomz' = roomz \ {rid}
  /\ room_id' = rid
  /\ IF rid \in DOMAIN rooms_by_id
     THEN /\ user_id_list' = rooms_by_id[rid].users
          /\ pc' = "members"
     ELSE /\ user_id_list' = <<>>
          /\ pc' = "rooms"
  /\ envs' = <<>>
  /\ logout_users' = <<>>
  /\ turns' = <<>>
  /\ UNCHANGED <<sock, users_by_id, user_ids_by_str, rooms_by_id, room_ids_by_str,
                 now, urecvr, new_user_id, conn, dropped, n_inputs>>

\* one pass through the loop over the member snapshot
\* the frame f stays within the bounds of the model
Bounded(f) ==
  /\ \A rid \in DOMAIN f.context.rooms_by_id :
        Len(f.context.rooms_by_id[rid].users) <= MaxMembers
  /\ \A uid \in DOMAIN f.context.users_by_id :
        Len(f.context.users_by_id[uid].send_buff) <= MaxPending

MemberTurn(ev, max_inputs) ==
  /\ pc = "members"
  /\ user_id_list # <<>>
  /\ Head(user_id_list) \in DOMAIN users_by_id =>
        LET n_buff == users_by_id[Head(user_id_list)].recv_buff + ev.n IN
        IF ev.e = "msg"
        THEN ev.rest < n_buff /\ ev.rest <= MaxRecv
        ELSE n_buff <= MaxRecv
  /\ Bounded(member_turn(Frame, Head(user_id_list), ev, now))
  /\ Store(member_turn(Frame, Head(user_id_list), ev, now))
  /\ user_id_list' = Tail(user_id_list)
  /\ IF ev.e = "none"
     THEN n_inputs' = n_inputs
     ELSE n_inputs < max_inputs /\ n_inputs' = n_inputs + 1
  /\ UNCHANGED <<sock, pc, roomz, room_id, now, urecvr, new_user_id, conn>>

\* forced logouts, operator succession and delivery
ProcessRoomDeliver ==
  /\ pc = "members"
  /\ user_id_list = <<>>
  /\ Store([process_room_tail(Frame) EXCEPT !.turns = <<>>])
  /\ pc' = "send"
  /\ UNCHANGED <<sock, roomz, room_id, user_id_list, now, urecvr, new_user_id, conn, n_inputs>>

\* user.send() after a write of the whole send buffer (failed: an error)
nudge(u, failed) ==
  IF Len(u.send_buff) > 0
  THEN IF failed THEN [u EXCEPT !.errs = TRUE] ELSE [u EXCEPT !.send_buff = <<>>]
  ELSE u

\* the members that get a write attempt
Writers ==
  IF pc = "send"
  THEN {uid \in DOMAIN users_by_id :
          /\ Contains(rooms_by_id[room_id].users, uid)
          /\ Len(users_by_id[uid].send_buff) > 0}
  ELSE {}

\* main keeps every room
remove_never(rid) == FALSE

\* main's test after process_room(rid): the room is to be removed
remove(rid) == rid # 0 /\ Len(rooms_by_id[rid].users) = 0

\* the send buffers of the members are written out, process_room returns
\* and main removes the room if it is empty; bad: the writes that fail
ProcessRoomSend(bad) ==
  /\ pc = "send"
  /\ bad \subseteq {uid \in Writers : Len(users_by_id[uid].send_buff) <= MaxSendBuf}
  /\ users_by_id' =
       [uid \in DOMAIN users_by_id |->
          IF Contains(rooms_by_id[room_id].users, uid)
          THEN nudge(users_by_id[uid], uid \in bad)
          ELSE users_by_id[uid]]
  /\ IF remove(room_id)
     THEN /\ room_ids_by_str' = MapRemove(room_ids_by_str, rooms_by_id[room_id].idstr)
          /\ rooms_by_id' = MapRemove(rooms_by_id, room_id)
     ELSE UNCHANGED <<room_ids_by_str, rooms_by_id>>
  /\ envs' = <<>>
  /\ dropped' = <<>>
  /\ pc' = "rooms"
  /\ UNCHANGED <<sock, user_ids_by_str, roomz, room_id, user_id_list, logout_users,
                 turns, now, urecvr, new_user_id, conn, n_inputs>>

\* the generic name of the id, taken or not
gen_name_once(init_count, map) == UserN(init_count)

gen_name(init_count, map) ==
  UserN(CHOOSE n \in init_count..(init_count + Cardinality(DOMAIN map)) :
          /\ UserN(n) \notin DOMAIN map
          /\ \A m \in init_count..(n - 1) : UserN(m) \in DOMAIN map)

\* the join-lobby procedure for the session u taken from the channel
join_lobby(u0) ==
  LET u == deliver_msg(u0, Sndr("Info", "welcome", <<>>))
      rename ==
        IF Len(u.idstr) = 0 THEN "Your name does not have enough whitespace characters."
        ELSE IF StrLen(u.name) > cfg.max_user_name_length
        THEN "Your name cannot be longer than {} chars."
        ELSE IF u.idstr \in DOMAIN user_ids_by_str THEN "Name {} exists."
        ELSE ""
      new_name == gen_name(u.idn, user_ids_by_str)
      named == IF rename # ""
               THEN deliver_msg(
                      set_name(deliver_msg(u, Sndr("Err", rename, <<>>)), new_name),
                      Sndr("Misc", "name", <<u.name, new_name>>))
               ELSE u
      env == Env(Server, EndRoom(0),
                 Sndr("Misc", "join", <<named.name, cfg.lobby_name>>))
  IN /\ rooms_by_id' =
          [rooms_by_id EXCEPT ![0] = Room_enqueue(Room_join(@, named.idn), env)]
     /\ user_ids_by_str' = MapInsert(user_ids_by_str, named.idstr, named.idn)
     /\ users_by_id' = MapInsert(users_by_id, named.idn, named)

\* the rooms are done: the channel is polled, then the thread sleeps
\* the session sent last is received first
try_recv_last(chan) ==
  IF chan = <<>> THEN [ok |-> FALSE, rest |-> chan]
  ELSE [ok |-> TRUE, u |-> chan[Len(chan)], rest |-> SubSeq(chan, 1, Len(chan) - 1)]

\* urecvr.try_recv(): the session sent first, if there is one
try_recv(chan) ==
  IF chan = <<>> THEN [ok |-> FALSE, rest |-> chan]
  ELSE [ok |-> TRUE, u |-> Head(chan), rest |-> Tail(chan)]

AcceptPoll ==
  /\ pc = "rooms"
  /\ roomz = {}
  /\ IF try_recv(urecvr).ok
     THEN /\ join_lobby(try_recv(urecvr).u)
          /\ urecvr' = try_recv(urecvr).rest
     ELSE UNCHANGED <<users_by_id, user_ids_by_str, rooms_by_id, urecvr>>
  /\ pc' = "loop"
  /\ UNCHANGED <<sock, room_ids_by_str, roomz, room_id, user_id_list, envs,
                 logout_users, turns, now, new_user_id, conn, dropped, n_inputs>>

----------------------------------------------------------------------------
(* Sock (common/src/socket.rs): the decoding of the receive buffer.  A     *)
(* byte is "{" or "}" (the braces of a JSON object), "x" (a byte inside    *)
(* it) or "nl" (a newline, which JSON takes for whitespace).               *)

Byte == {"{", "}", "x", "nl"}

\* serde_json's position of an error at the byte p of dat that the parser
\* has peeked at: the line, counted from 1, and the number of bytes of that
\* line up to the byte p
position_of(dat, p) ==
  LET newlines == {q \in 1..p : dat[q] = "nl"}
      last == IF newlines = {} THEN 0
              ELSE CHOOSE q \in newlines : \A r \in newlines : r <= q
  IN [line |-> 1 + Cardinality(newlines), column |-> p - last]

\* the first position from p on whose byte is in the set stop (Len + 1 when
\* there is none)
RECURSIVE seek(_, _, _)
seek(dat, p, stop) ==
  IF p > Len(dat) THEN Len(dat) + 1
  ELSE IF dat[p] \in stop THEN p
  ELSE seek(dat, p + 1, stop)

\* the message a JSON text stands for: its bytes without the whitespace
value_of(text) == SelectSeq(text, LAMBDA b : b # "nl")

\* serde_json::from_slice::<Rcvr>(dat): whitespace, one object, whitespace;
\* the end of the input inside the object or before it is an Eof error,
\* a byte that cannot stand where it stands a Syntax error with its position
from_slice(dat) ==
  LET open == seek(dat, 1, Byte \ {"nl"}) IN
  IF open > Len(dat) THEN [cat |-> "Eof"]
  ELSE IF dat[open] # "{" THEN [cat |-> "Syntax", at |-> position_of(dat, open)]
  ELSE
    LET close == seek(dat, open + 1, {"{", "}"}) IN
    IF close > Len(dat) THEN [cat |-> "Eof"]
    ELSE IF dat[close] = "{" THEN [cat |-> "Syntax", at |-> position_of(dat, close)]
    ELSE
      LET more == seek(dat, close + 1, Byte \ {"nl"}) IN
      IF more > Len(dat)
      THEN [cat |-> "Ok", m |-> value_of(SubSeq(dat, open, close))]
      ELSE [cat |-> "Syntax", at |-> position_of(dat, more)]

\* the loop of get_actual_offset from the byte n on (counted from 0), with
\* line_n newlines passed: the offset, or -1 where the code returns Err
RECURSIVE offset_loop(_, _, _, _, _)
offset_loop(dat, line, col, line_n, n) ==
  IF line_n < line
  THEN IF n >= Len(dat) THEN -1
       ELSE offset_loop(dat, line, col,
                        IF dat[n + 1] = "nl" THEN line_n + 1 ELSE line_n, n + 1)
  ELSE n + col

\* the column is taken for the offset, whatever the line
get_offset_in_line(dat, e) == e.at.column - 1

get_actual_offset(dat, e) ==
  offset_loop(dat, e.at.line - 1, e.at.column - 1, 0, 0)

Sock_new == [current |-> <<>>, wire |-> [msgs |-> <<>>, rest |-> <<>>], got |-> <<>>]

\* Sock::try_get on the buffer current: what it returns ("msg" with the
\* message, "none", "err", or "panic" for the unwrap of an Err and a slice
\* beyond the buffer) and the buffer it leaves
Sock_try_get(current) ==
  LET maybe_msg == from_slice(current) IN
  IF maybe_msg.cat = "Ok"
  THEN [res |-> "msg", m |-> maybe_msg.m, current |-> <<>>]
  ELSE IF maybe_msg.cat = "Eof"
  THEN [res |-> "none", m |-> <<>>, current |-> current]
  ELSE
    LET offs == get_actual_offset(current, maybe_msg) IN
    IF offs < 0 \/ offs > Len(current)
    THEN [res |-> "panic", m |-> <<>>, current |-> current]
    ELSE
      LET again == from_slice(SubSeq(current, 1, offs)) IN
      IF again.cat = "Ok"
      THEN [res |-> "msg", m |-> again.m,
            current |-> SubSeq(current, offs + 1, Len(current))]
      ELSE [res |-> "err", m |-> <<>>, current |-> current]

----------------------------------------------------------------------------
(* The state after construction: main before the loop *)

Init ==
  /\ users_by_id = <<>>
  /\ user_ids_by_str = <<>>
  /\ rooms_by_id = [rid \in {0} |-> Room_new(0, cfg.lobby_name, 0)]
  /\ room_ids_by_str = <<>>
  /\ pc = "loop"
  /\ roomz = {}
  /\ room_id = 0
  /\ user_id_list = <<>>
  /\ envs = <<>>
  /\ logout_users = <<>>
  /\ turns = <<>>
  /\ now = 0
  /\ urecvr = <<>>
  /\ new_user_id = 100
  /\ conn = [n |-> 0, idn |-> 0, first |-> Err(""), sent |-> <<>>, shutdown |-> FALSE]
  /\ dropped = <<>>
  /\ n_inputs = 0
  /\ sock = Sock_new

----------------------------------------------------------------------------
(* Specification Spec: rooms and membership.  Every client asks for the    *)
(* name "a"; the clients send Join, Logout and Op(Kick), and reads fail.   *)

HandshakeNames == {<<"a">>}

RoomNames == {<<"L">>, <<"g">>}

TargetNames == {<<"a">>, UserN(101)}

Messages ==
  {Rcvr("Logout", "", <<>>)}
    \cup {Rcvr("Join", "", r) : r \in RoomNames}
    \cup {Rcvr("Op", "Kick", n) : n \in TargetNames}

Events ==
  {SockEv("none", 0, None), SockEv("io_error", 0, None)}
    \cup {SockEv("msg", 1, m) : m \in Messages}

Next ==
  \/ \E n \in HandshakeNames : pc = "loop" /\ Listen(n, MaxUsers)
  \/ LoopStart(0)
  \/ \E rid \in roomz : ProcessRoomBegin(rid)
  \/ \E ev \in Events : MemberTurn(ev, MaxInputs)
  \/ ProcessRoomDeliver
  \/ ProcessRoomSend({})
  \/ AcceptPoll

Spec == Init /\ [][Next]_vars

----------------------------------------------------------------------------
(* Specification SpecIdle: the lobby with the clock running.  A read brings *)
(* nothing, a byte of a message that stays incomplete, a Text, a Logout or  *)
(* an error; writes of the send buffers may fail.                           *)

EventsIdle ==
  {SockEv("none", 0, None), SockEv("partial", 1, None), SockEv("io_error", 0, None),
   SockEv("msg", 1, Rcvr("Text", "", <<>>)), SockEv("msg", 1, Rcvr("Logout", "", <<>>))}

NextIdle ==
  \/ \E n \in HandshakeNames : pc = "loop" /\ Listen(n, MaxUsers)
  \/ LoopStart(1)
  \/ \E rid \in roomz : ProcessRoomBegin(rid)
  \/ \E ev \in EventsIdle : MemberTurn(ev, MaxInputs)
  \/ ProcessRoomDeliver
  \/ \E bad \in SUBSET Writers : ProcessRoomSend(bad)
  \/ AcceptPoll

SpecIdle == Init /\ [][NextIdle]_vars

----------------------------------------------------------------------------
(* Specification SpecNames: the lobby with names changing.  Clients ask for *)
(* names that collide, that differ in case only or that are blank, and send *)
(* Name and Logout; reads fail.                                             *)

LongName == <<"a", "b", "a", "b", "a", "b", "a", "b">>

MaxNamed == 3     \* sessions the listener publishes in SpecNames

HandshakeNamesN == {<<"a">>, <<"A">>, <<" ">>}

NameCandidates == {<<"A">>, <<"B">>, <<" ">>, UserN(101), UserN(102)}

EventsNames ==
  {SockEv("none", 0, None), SockEv("io_error", 0, None),
   SockEv("msg", 1, Rcvr("Logout", "", <<>>))}
    \cup {SockEv("msg", 1, Rcvr("Name", "", c)) : c \in NameCandidates}

NextNames ==
  \/ \E n \in HandshakeNamesN : pc = "loop" /\ Listen(n, MaxNamed)
  \/ LoopStart(0)
  \/ \E rid \in roomz : ProcessRoomBegin(rid)
  \/ \E ev \in EventsNames : MemberTurn(ev, MaxInputs)
  \/ ProcessRoomDeliver
  \/ ProcessRoomSend({})
  \/ AcceptPoll

SpecNames == Init /\ [][NextNames]_vars

(***************************************************************************)
(* Names at the limit: the clients ask for names of max_user_name_length   *)
(* characters and of one more, with and without a character of two bytes,  *)
(* for a name another user holds and for a blank one.                      *)
(***************************************************************************)
FullName == <<"a", "b", "a", "b", "a", "b", "a">>

FullNameWide == <<"ss", "b", "a", "b", "a", "b", "a">>

LongNameWide == <<"ss", "b", "a", "b", "a", "b", "a", "b">>

LimitCandidates ==
  {<<"A">>, <<" ">>, FullName, LongName, FullNameWide, LongNameWide}

EventsLimit ==
  {SockEv("none", 0, None)}
    \cup {SockEv("msg", 1, Rcvr("Name", "", c)) : c \in LimitCandidates}

NextLimit ==
  \/ \E n \in HandshakeNames : pc = "loop" /\ Listen(n, MaxUsers)
  \/ LoopStart(0)
  \/ \E rid \in roomz : ProcessRoomBegin(rid)
  \/ \E ev \in EventsLimit : MemberTurn(ev, MaxInputs)
  \/ ProcessRoomDeliver
  \/ ProcessRoomSend({})
  \/ AcceptPoll

SpecLimit == Init /\ [][NextLimit]_vars

----------------------------------------------------------------------------
(* Specification SpecMod: moderation.  The clients join the room g and send *)
(* every Op subcommand, as operator and as plain member.                    *)

MessagesMod ==
  {Rcvr("Join", "", <<"g">>)}
    \cup {Rcvr("Op", o, <<>>) : o \in {"Open", "Close"}}
    \cup {Rcvr("Op", o, n) : o \in {"Kick", "Invite", "Give"}, n \in TargetNames}

EventsMod ==
  {SockEv("none", 0, None)} \cup {SockEv("msg", 1, m) : m \in MessagesMod}

NextMod ==
  \/ \E n \in HandshakeNames : pc = "loop" /\ Listen(n, MaxUsers)
  \/ LoopStart(0)
  \/ \E rid \in roomz : ProcessRoomBegin(rid)
  \/ \E ev \in EventsMod : MemberTurn(ev, MaxInputs)
  \/ ProcessRoomDeliver
  \/ ProcessRoomSend({})
  \/ AcceptPoll

SpecMod == Init /\ [][NextMod]_vars

----------------------------------------------------------------------------
(* Specification SpecBlock: the lobby with block lists.  The clients send   *)
(* Text and Priv, and Block and Unblock each other in any order.            *)

PeerNames == {<<"a">>, UserN(101), UserN(102)}

MessagesBlock ==
  {Rcvr("Text", "", <<>>)}
    \cup {Rcvr(t, "", n) : t \in {"Priv", "Block", "Unblock"}, n \in PeerNames}

EventsBlock ==
  {SockEv("none", 0, None)} \cup {SockEv("msg", 1, m) : m \in MessagesBlock}

NextBlock ==
  \/ \E n \in HandshakeNames : pc = "loop" /\ Listen(n, MaxNamed)
  \/ LoopStart(0)
  \/ \E rid \in roomz : ProcessRoomBegin(rid)
  \/ \E ev \in EventsBlock : MemberTurn(ev, MaxInputs)
  \/ ProcessRoomDeliver
  \/ ProcessRoomSend({})
  \/ AcceptPoll

SpecBlock == Init /\ [][NextBlock]_vars

(***************************************************************************)
(* The listener: connections whose first message is a Name, another        *)
(* message, or none (an error, the deadline); the sessions that get in     *)
(* stay silent or log out.                                                 *)
(***************************************************************************)
MaxConns == 4

Firsts ==
  {Ok(Rcvr("Name", "", n)) : n \in {<<"a">>, <<"A">>, <<" ">>, UserN(101), LongName}}
    \cup
  {Ok(Rcvr("Text", "", <<>>)), Ok(Rcvr("Join", "", <<"g">>)),
   Err("io_error"), Err("syntax"), Err("timeout")}

EventsListen ==
  {SockEv("none", 0, None), SockEv("msg", 1, Rcvr("Logout", "", <<>>))}

NextListen ==
  \/ \E first \in Firsts : pc = "loop" /\ Accept(first, MaxUsers, MaxConns)
  \/ LoopStart(0)
  \/ \E rid \in roomz : ProcessRoomBegin(rid)
  \/ \E ev \in EventsListen : MemberTurn(ev, MaxInputs)
  \/ ProcessRoomDeliver
  \/ ProcessRoomSend({})
  \/ AcceptPoll

SpecListen == Init /\ [][NextListen]_vars

(***************************************************************************)
(* The byte quota: messages of one or two bytes, counted and not, that     *)
(* arrive alone or with the first byte of what follows them; the clock     *)
(* advances with every iteration of the main loop.                         *)
(***************************************************************************)
MaxQuotaInputs == 4

MessagesQuota ==
  {Rcvr("Text", "", <<>>), Rcvr("Join", "", <<"g">>), Rcvr("Block", "", UserN(101))}

EventsQuota ==
  {SockEv("none", 0, None)}
    \cup {SockEvRest("msg", n, m, rest) : n \in 0..2, rest \in 0..1, m \in MessagesQuota}

NextQuota ==
  \/ \E n \in HandshakeNames : pc = "loop" /\ Listen(n, MaxUsers)
  \/ LoopStart(1)
  \/ \E rid \in roomz : ProcessRoomBegin(rid)
  \/ \E ev \in EventsQuota : MemberTurn(ev, MaxQuotaInputs)
  \/ ProcessRoomDeliver
  \/ ProcessRoomSend({})
  \/ AcceptPoll

SpecQuota == Init /\ [][NextQuota]_vars

(***************************************************************************)
(* A flood: Texts of up to three bytes take the counter above the limit,   *)
(* and a Text, a Logout or a Ping arrives while it is there.               *)
(***************************************************************************)
MessagesFlood ==
  {Rcvr("Text", "", <<>>), Rcvr("Logout", "", <<>>), Rcvr("Ping", "", <<>>)}

EventsFlood ==
  {SockEv("none", 0, None)}
    \cup {SockEvRest("msg", n, m, rest) : n \in 1..2, rest \in 0..1, m \in MessagesFlood}

NextFlood ==
  \/ \E n \in HandshakeNames : pc = "loop" /\ Listen(n, MaxUsers)
  \/ LoopStart(1)
  \/ \E rid \in roomz : ProcessRoomBegin(rid)
  \/ \E ev \in EventsFlood : MemberTurn(ev, MaxQuotaInputs)
  \/ ProcessRoomDeliver
  \/ ProcessRoomSend({})
  \/ AcceptPoll

SpecFlood == Init /\ [][NextFlood]_vars

----------------------------------------------------------------------------
(* Specification SpecSucc: operator succession.  Three clients join the    *)
(* room g, leave it by Logout, and lose their connections.                 *)

MaxSuccInputs == 6

MessagesSucc ==
  {Rcvr("Join", "", <<"g">>), Rcvr("Logout", "", <<>>)}

EventsSucc ==
  {SockEv("none", 0, None), SockEv("io_error", 0, None)}
    \cup {SockEv("msg", 1, m) : m \in MessagesSucc}

NextSucc ==
  \/ \E n \in HandshakeNames : pc = "loop" /\ Listen(n, MaxNamed)
  \/ LoopStart(0)
  \/ \E rid \in roomz : ProcessRoomBegin(rid)
  \/ \E ev \in EventsSucc : MemberTurn(ev, MaxSuccInputs)
  \/ ProcessRoomDeliver
  \/ ProcessRoomSend({})
  \/ AcceptPoll

SpecSucc == Init /\ [][NextSucc]_vars

----------------------------------------------------------------------------
(* Specification SpecGive: transfer of the operator's rights.  The clients *)
(* join the room g and send Give with the name of a member, of a user in   *)
(* the Lobby, of themselves, of nobody, and with a blank name.             *)

GiveNames == TargetNames \cup {UserN(100), <<" ">>}

MessagesGive ==
  {Rcvr("Join", "", <<"g">>)} \cup {Rcvr("Op", "Give", n) : n \in GiveNames}

EventsGive ==
  {SockEv("none", 0, None)} \cup {SockEv("msg", 1, m) : m \in MessagesGive}

NextGive ==
  \/ \E n \in HandshakeNames : pc = "loop" /\ Listen(n, MaxUsers)
  \/ LoopStart(0)
  \/ \E rid \in roomz : ProcessRoomBegin(rid)
  \/ \E ev \in EventsGive : MemberTurn(ev, MaxInputs)
  \/ ProcessRoomDeliver
  \/ ProcessRoomSend({})
  \/ AcceptPoll

SpecGive == Init /\ [][NextGive]_vars

----------------------------------------------------------------------------
(* Specification SpecPriv: private messages across rooms.  The clients     *)
(* send Priv to each other, to themselves, to nobody and to a blank name,  *)
(* block each other, and move to the room g.                               *)

PrivNames == {<<"a">>, UserN(101), UserN(102), <<" ">>}

MessagesPriv ==
  {Rcvr("Join", "", <<"g">>)}
    \cup {Rcvr("Priv", "", n) : n \in PrivNames}
    \cup {Rcvr("Block", "", n) : n \in TargetNames}

EventsPriv ==
  {SockEv("none", 0, None)} \cup {SockEv("msg", 1, m) : m \in MessagesPriv}

NextPriv ==
  \/ \E n \in HandshakeNames : pc = "loop" /\ Listen(n, MaxUsers)
  \/ LoopStart(0)
  \/ \E rid \in roomz : ProcessRoomBegin(rid)
  \/ \E ev \in EventsPriv : MemberTurn(ev, MaxInputs)
  \/ ProcessRoomDeliver
  \/ ProcessRoomSend({})
  \/ AcceptPoll

SpecPriv == Init /\ [][NextPriv]_vars

----------------------------------------------------------------------------
(* Specification SpecChan: the two threads and the channel between them.   *)
(* The listener accepts connections at any point of the main loop, so that *)
(* sessions queue up in the channel; SpecChanFair adds that the main loop  *)
(* keeps running (it never blocks: try_recv and the socket reads are       *)
(* non-blocking and the sleep is bounded by min_tick).                     *)

MaxWaiting == 2   \* sessions waiting in the channel in SpecChan

FirstsChan == {Ok(Rcvr("Name", "", <<"a">>)), Err("io_error")}

EventsChan ==
  {SockEv("none", 0, None), SockEv("msg", 1, Rcvr("Logout", "", <<>>))}

Listener == \E first \in FirstsChan : AcceptChan(first, MaxNamed, MaxConns, MaxWaiting)

Dispatcher ==
  \/ LoopStart(0)
  \/ \E rid \in roomz : ProcessRoomBegin(rid)
  \/ \E ev \in EventsChan : MemberTurn(ev, MaxInputs)
  \/ ProcessRoomDeliver
  \/ ProcessRoomSend({})
  \/ AcceptPoll

NextChan == Listener \/ Dispatcher

SpecChan == Init /\ [][NextChan]_vars

SpecChanFair == Init /\ [][NextChan]_vars /\ WF_vars(Dispatcher)

----------------------------------------------------------------------------
(* Specification SpecRoster: the roster of a room.  The clients move       *)
(* between the Lobby and the room g, log out, lose their connections and   *)
(* ask for the roster, or for something unknown, in between.               *)

MessagesRoster ==
  {Rcvr("Logout", "", <<>>)}
    \cup {Rcvr("Join", "", r) : r \in RoomNames}
    \cup {Rcvr("Query", w, <<>>) : w \in {"roster", "what"}}

EventsRoster ==
  {SockEv("none", 0, None), SockEv("io_error", 0, None)}
    \cup {SockEv("msg", 1, m) : m \in MessagesRoster}

NextRoster ==
  \/ \E n \in HandshakeNames : pc = "loop" /\ Listen(n, MaxUsers)
  \/ LoopStart(0)
  \/ \E rid \in roomz : ProcessRoomBegin(rid)
  \/ \E ev \in EventsRoster : MemberTurn(ev, MaxInputs)
  \/ ProcessRoomDeliver
  \/ ProcessRoomSend({})
  \/ AcceptPoll

SpecRoster == Init /\ [][NextRoster]_vars

----------------------------------------------------------------------------
(* Specification SpecDecode: a Sock whose receive buffer holds up to        *)
(* MaxMsgs complete messages and the beginning of another, and the calls   *)
(* of try_get that follow with no read in between.                         *)

MaxMsgs == 2      \* complete messages in the receive buffer

\* encoded messages: with and without bytes inside, with a newline inside
\* and with one at the end
Encoded ==
  { <<"{", "}">>, <<"{", "x", "}">>, <<"{", "x", "x", "}">>,
    <<"{", "nl", "x", "}">>, <<"{", "x", "nl", "}">>, <<"{", "x", "}", "nl">> }

\* what has arrived of a message that is not complete yet
Incomplete ==
  { <<>>, <<"{">>, <<"{", "x">>, <<"{", "nl">>, <<"{", "nl", "x">> }

Wires ==
  UNION {[1..k -> Encoded] : k \in 1..MaxMsgs}

InitDecode ==
  /\ users_by_id = <<>>
  /\ user_ids_by_str = <<>>
  /\ rooms_by_id = [rid \in {0} |-> Room_new(0, cfg.lobby_name, 0)]
  /\ room_ids_by_str = <<>>
  /\ pc = "loop"
  /\ roomz = {}
  /\ room_id = 0
  /\ user_id_list = <<>>
  /\ envs = <<>>
  /\ logout_users = <<>>
  /\ turns = <<>>
  /\ now = 0
  /\ urecvr = <<>>
  /\ new_user_id = 100
  /\ conn = [n |-> 0, idn |-> 0, first |-> Err(""), sent |-> <<>>, shutdown |-> FALSE]
  /\ dropped = <<>>
  /\ n_inputs = 0
  /\ \E msgs \in Wires, rest \in Incomplete :
       sock = [current |-> Concat(msgs) \o rest,
               wire |-> [msgs |-> msgs, rest |-> rest],
               got |-> <<>>]

\* one call of try_get; the calls go on until one has returned no message
TryGet ==
  /\ IF sock.got = <<>> THEN TRUE ELSE sock.got[Len(sock.got)].res = "msg"
  /\ LET r == Sock_try_get(sock.current) IN
     sock' = [sock EXCEPT !.current = r.current, !.got = Append(@, r)]
  /\ UNCHANGED <<users_by_id, user_ids_by_str, rooms_by_id, room_ids_by_str, pc,
                 roomz, room_id, user_id_list, envs, logout_users, turns, now,
                 urecvr, new_user_id, conn, dropped, n_inputs>>

NextDecode == TryGet

SpecDecode == InitDecode /\ [][NextDecode]_vars

----------------------------------------------------------------------------
(* Definitions used by the properties *)

\* the positions <<room, index>> at which uid is listed as a member
Memberships(uid) ==
  {p \in UNION {{<<rid, i>> : i \in 1..Len(rooms_by_id[rid].users)} :
                   rid \in DOMAIN rooms_by_id} :
     rooms_by_id[p[1]].users[p[2]] = uid}

AllMembers ==
  UNION {{rooms_by_id[rid].users[i] : i \in 1..Len(rooms_by_id[rid].users)} :
           rid \in DOMAIN rooms_by_id}

\* the step is a pass through the member loop that dispatched a message of kind t
Dispatched(t) ==
  /\ pc = "members"
  /\ user_id_list # <<>>
  /\ user_id_list' = Tail(user_id_list)
  /\ Len(turns') = Len(turns) + 1
  /\ turns'[Len(turns')].msg.t = t

\* C1: every user id occurs at most once across all rooms' member lists
C1_OneRoomPerUser == \A uid \in AllMembers : Cardinality(Memberships(uid)) <= 1

\* C2: at the end of every process_room, every non-lobby room that has
\* members has its operator among them
C2_OperatorIsMember ==
  pc \in {"rooms", "loop"} =>
    \A rid \in DOMAIN rooms_by_id \ {0} :
      rooms_by_id[rid].users # <<>> =>
        Contains(rooms_by_id[rid].users, rooms_by_id[rid].op)

\* C3: the room id map and the room-name index are in bijection, the lobby
\* included
C3_RoomIndexBijection ==
  /\ \A rid \in DOMAIN rooms_by_id :
       /\ rooms_by_id[rid].idstr \in DOMAIN room_ids_by_str
       /\ room_ids_by_str[rooms_by_id[rid].idstr] = rid
  /\ \A k \in DOMAIN room_ids_by_str :
       /\ room_ids_by_str[k] \in DOMAIN rooms_by_id
       /\ rooms_by_id[room_ids_by_str[k]].idstr = k

\* C8: at the end of every main-loop iteration the lobby exists, every other
\* room has a member, and no index entry is left for a removed room
C8_NoEmptyRoom ==
  pc = "loop" =>
    /\ 0 \in DOMAIN rooms_by_id
    /\ \A rid \in DOMAIN rooms_by_id \ {0} : rooms_by_id[rid].users # <<>>
    /\ \A k \in DOMAIN room_ids_by_str :
         /\ room_ids_by_str[k] \in DOMAIN rooms_by_id
         /\ room_ids_by_str[k] # 0

\* an iteration ends whose last process_room emptied a room, which is gone
C8_Witness ==
  /\ pc = "loop"
  /\ room_id # 0
  /\ room_id \notin DOMAIN rooms_by_id
  /\ \A k \in DOMAIN room_ids_by_str : room_ids_by_str[k] # room_id

\* C9: a Join whose name normalizes to the normalized name of the room it is
\* handled in changes no room, no index and no outbox, and returns one Info
\* to the requester
C9_JoinCurrentIsNoop ==
  [][ ( /\ Dispatched("Join")
        /\ collapse(turns'[Len(turns')].msg.arg) = rooms_by_id[room_id].idstr
        /\ Contains(rooms_by_id[room_id].users, Head(user_id_list)) )
      => ( /\ rooms_by_id' = rooms_by_id
           /\ room_ids_by_str' = room_ids_by_str
           /\ user_ids_by_str' = user_ids_by_str
           /\ Len(envs') = Len(envs) + 1
           /\ envs'[Len(envs')].msg.k = "Info"
           /\ envs'[Len(envs')].dest = EndUser(Head(user_id_list))
           /\ \A uid \in DOMAIN users_by_id :
                /\ uid \in DOMAIN users_by_id'
                /\ users_by_id'[uid].send_buff = users_by_id[uid].send_buff ) ]_vars

\* C4: at every tick boundary the user id map and the user-name index are in
\* bijection, each key being the normalized name of the user it points to
C4_UserIndexBijection ==
  pc = "loop" =>
    /\ \A k \in DOMAIN user_ids_by_str :
         /\ user_ids_by_str[k] \in DOMAIN users_by_id
         /\ collapse(users_by_id[user_ids_by_str[k]].name) = k
    /\ \A uid \in DOMAIN users_by_id :
         /\ collapse(users_by_id[uid].name) \in DOMAIN user_ids_by_str
         /\ user_ids_by_str[collapse(users_by_id[uid].name)] = uid

\* a tick boundary after a Name change, a fallback renaming and a departure
C4_Witness ==
  /\ pc = "loop"
  /\ urecvr = <<>>
  /\ Cardinality(DOMAIN users_by_id) = 2
  /\ new_user_id > 100 + Cardinality(DOMAIN users_by_id)
  /\ \E uid \in DOMAIN users_by_id : users_by_id[uid].name = <<"B">>
  /\ \E uid \in DOMAIN users_by_id : users_by_id[uid].name = UserN(uid)

\* the time for which no complete message has been decoded from uid
Silence(uid) == now - users_by_id[uid].last_msg_time

TooLong == "Too long since server received data from the client."

\* C5: a member from whom no complete message has been decoded for longer
\* than time_to_ping gets a Ping at their turn, and one silent for longer than
\* time_to_kick is marked and then removed from the room and both user maps
C5_SilencePingKick ==
  [][ /\ ( /\ pc = "members"
           /\ user_id_list # <<>>
           /\ user_id_list' = Tail(user_id_list)
           /\ Head(user_id_list) \in DOMAIN users_by_id
           /\ Head(user_id_list) \in DOMAIN users_by_id'
           /\ users_by_id'[Head(user_id_list)].last_msg_time =
                users_by_id[Head(user_id_list)].last_msg_time )
         => LET U == Head(user_id_list) IN
            /\ Silence(U) > cfg.time_to_kick =>
                  Contains(logout_users', <<U, TooLong>>)
            /\ (Silence(U) > cfg.time_to_ping /\ Silence(U) <= cfg.time_to_kick) =>
                  Contains(users_by_id'[U].send_buff, Sndr("Ping", "", <<>>))
      /\ (pc = "members" /\ pc' = "send") =>
            \A i \in 1..Len(logout_users) :
              logout_users[i][2] = TooLong =>
                /\ logout_users[i][1] \notin DOMAIN users_by_id'
                /\ ~Contains(rooms_by_id'[room_id].users, logout_users[i][1])
                /\ \A k \in DOMAIN user_ids_by_str' :
                     user_ids_by_str'[k] # logout_users[i][1] ]_vars

\* C6: a member whose error list is non-empty when their turn comes is marked
\* for logout with the reason "Communication error." in that turn
C6_ErrorsForceLogout ==
  [][ ( /\ pc = "members"
        /\ user_id_list # <<>>
        /\ user_id_list' = Tail(user_id_list)
        /\ Head(user_id_list) \in DOMAIN users_by_id
        /\ has_errors(users_by_id[Head(user_id_list)]) )
      => Contains(logout_users', <<Head(user_id_list), "Communication error.">>) ]_vars

\* what a turn produced for the room: returned, then enqueued
Out(turn) == turn.returned \o turn.enqueued

Precedes(buff, a, b) ==
  \E p, q \in 1..Len(buff) : p < q /\ buff[p] = a /\ buff[q] = b

\* C7: when process_room delivers, a member that receives a room-visible
\* message produced in the turn of A and one produced in the later turn of B
\* has the first before the second in its send buffer
C7_TurnOrderKept ==
  [][ (pc = "members" /\ pc' = "send") =>
        \A i, j \in 1..Len(turns) :
          (i < j /\ turns[i].uid # turns[j].uid) =>
            \A p \in 1..Len(Out(turns[i])), q \in 1..Len(Out(turns[j])) :
              \A m \in DOMAIN users_by_id' :
                LET a == Out(turns[i])[p]
                    b == Out(turns[j])[q]
                    buff == users_by_id'[m].send_buff
                IN ( /\ Contains(rooms_by_id'[room_id].users, m)
                     /\ a # b
                     /\ Contains(buff, a)
                     /\ Contains(buff, b) )
                   => Precedes(buff, a, b) ]_vars

\* C10: a Join by U that names an existing room R other than the one U is in
\* makes U a member of R and of no other room if U is not banned from R and
\* R is open or U is invited; otherwise no member list changes and only an
\* Info to U is returned
C10_JoinGate ==
  [][ Dispatched("Join") =>
        LET U == Head(user_id_list)
            key == collapse(turns'[Len(turns')].msg.arg)
        IN \A R \in DOMAIN rooms_by_id :
             ( /\ rooms_by_id[R].idstr = key
               /\ ~Contains(rooms_by_id[R].users, U) )
             => IF /\ ~is_banned(rooms_by_id[R], U)
                   /\ (~rooms_by_id[R].closed \/ is_invited(rooms_by_id[R], U))
                THEN /\ R \in DOMAIN rooms_by_id'
                     /\ Contains(rooms_by_id'[R].users, U)
                     /\ \A Q \in DOMAIN rooms_by_id' \ {R} :
                          ~Contains(rooms_by_id'[Q].users, U)
                ELSE /\ DOMAIN rooms_by_id' = DOMAIN rooms_by_id
                     /\ \A Q \in DOMAIN rooms_by_id :
                          rooms_by_id'[Q].users = rooms_by_id[Q].users
                     /\ Len(envs') = Len(envs) + 1
                     /\ envs'[Len(envs')].msg.k = "Info"
                     /\ envs'[Len(envs')].dest = EndUser(U) ]_vars

\* the step dispatched Op(op) of the member at the head of the snapshot
DispatchedOp(op) == Dispatched("Op") /\ turns'[Len(turns')].msg.op = op

\* the users about whom only the member lists are compared
SameMembers ==
  /\ DOMAIN rooms_by_id' = DOMAIN rooms_by_id
  /\ \A Q \in DOMAIN rooms_by_id : rooms_by_id'[Q].users = rooms_by_id[Q].users

\* C11: Op(Kick(name)) by the operator of R naming an existing user T, not
\* the caller and not yet banned, bans T; a member T leaves R, is appended to
\* the lobby and gets kick_you, R gets kick_other and the lobby a join
\* notice; for an absent T no member list changes and the caller gets an Info
C11_KickBansAndMoves ==
  [][ DispatchedOp("Kick") =>
        LET U == Head(user_id_list)
            R == room_id
            key == collapse(turns'[Len(turns')].msg.arg)
            T == user_ids_by_str[key]
        IN ( /\ rooms_by_id[R].op = U
             /\ key \in DOMAIN user_ids_by_str
             /\ T # U
             /\ T \in DOMAIN users_by_id
             /\ ~is_banned(rooms_by_id[R], T) )
           => /\ is_banned(rooms_by_id'[R], T)
              /\ IF Contains(rooms_by_id[R].users, T)
                 THEN /\ ~Contains(rooms_by_id'[R].users, T)
                      /\ rooms_by_id'[0].users = Append(rooms_by_id[0].users, T)
                      /\ users_by_id'[T].send_buff =
                           Append(users_by_id[T].send_buff,
                                  Sndr("Misc", "kick_you", <<rooms_by_id[R].name>>))
                      /\ Len(turns'[Len(turns')].returned) = 1
                      /\ turns'[Len(turns')].returned[1].what = "kick_other"
                      /\ Len(rooms_by_id'[0].inbox) = Len(rooms_by_id[0].inbox) + 1
                      /\ rooms_by_id'[0].inbox[Len(rooms_by_id'[0].inbox)].msg.what = "join"
                 ELSE /\ SameMembers
                      /\ Len(envs') = Len(envs) + 1
                      /\ envs'[Len(envs')].msg.k = "Info"
                      /\ envs'[Len(envs')].dest = EndUser(U) ]_vars

\* the operator of a room has just kicked a member, who is banned and in the lobby
C11_Witness ==
  /\ pc = "members"
  /\ room_id # 0
  /\ turns # <<>>
  /\ turns[Len(turns)].msg.op = "Kick"
  /\ turns[Len(turns)].returned # <<>>
  /\ turns[Len(turns)].returned[1].what = "kick_other"
  /\ \E T \in DOMAIN users_by_id :
       /\ is_banned(rooms_by_id[room_id], T)
       /\ Contains(rooms_by_id[0].users, T)
       /\ ~Contains(rooms_by_id[room_id].users, T)

NotOperator == Sndr("Err", "You are not the operator of this Room.", <<>>)

\* C12: an Op subcommand of a user who is not the operator of the room it is
\* handled in changes no room, no index and no other user, and returns
\* exactly one Err("You are not the operator of this Room.") to the caller
C12_NonOperatorRefused ==
  [][ ( /\ Dispatched("Op")
        /\ rooms_by_id[room_id].op # Head(user_id_list) )
      => LET U == Head(user_id_list) IN
         /\ rooms_by_id' = rooms_by_id
         /\ room_ids_by_str' = room_ids_by_str
         /\ user_ids_by_str' = user_ids_by_str
         /\ DOMAIN users_by_id' = DOMAIN users_by_id
         /\ \A V \in DOMAIN users_by_id \ {U} : users_by_id'[V] = users_by_id[V]
         /\ users_by_id'[U].send_buff = users_by_id[U].send_buff
         /\ envs' = Append(envs, Env(Server, EndUser(U), NotOperator)) ]_vars

\* a member of a room other than the lobby, not its operator, has just been
\* refused an Op subcommand
C12_Witness ==
  /\ pc = "members"
  /\ room_id # 0
  /\ turns # <<>>
  /\ turns[Len(turns)].msg.t = "Op"
  /\ rooms_by_id[room_id].op # turns[Len(turns)].uid
  /\ Contains(rooms_by_id[room_id].users, turns[Len(turns)].uid)
  /\ envs # <<>>
  /\ envs[Len(envs)].msg = NotOperator

\* the envelopes process_room delivers in the step that ends the member
\* loop: the outbox of the room, then the tick list
Delivered == rooms_by_id[room_id].inbox \o envs'

\* r is a recipient of the envelope e when it is delivered
Recipient(e, r) ==
  IF e.dest.t = "User" THEN e.dest.id = r
  ELSE Contains(rooms_by_id'[room_id].users, r)

BlockedBy(e, r) == e.source.t = "User" /\ Contains(users_by_id'[r].blocks, e.source.id)

\* the messages r is due: of the delivered envelopes, in order, those r is a
\* recipient of and whose source r does not block
Due(r) ==
  LET sel == SelectSeq(Delivered, LAMBDA e : Recipient(e, r) /\ ~BlockedBy(e, r))
  IN [i \in 1..Len(sel) |-> sel[i].msg]

\* C13: when process_room delivers, the send buffer of every user grows by
\* exactly the envelopes the user is a recipient of, those from a User source
\* the recipient blocks left out, those from the Server all included
C13_BlockedSourcesSkipped ==
  [][ (pc = "members" /\ pc' = "send") =>
        \A r \in DOMAIN users_by_id' :
          users_by_id'[r].send_buff = users_by_id[r].send_buff \o Due(r) ]_vars

\* a Text has been delivered to its sender and not to the member blocking the
\* sender, who did get an envelope of the Server in that delivery
C13_Witness ==
  /\ pc = "send"
  /\ \E r, src \in DOMAIN users_by_id :
       LET text == Sndr("Text", "", <<users_by_id[src].name>>) IN
       /\ Contains(users_by_id[r].blocks, src)
       /\ Contains(rooms_by_id[room_id].users, r)
       /\ Contains(rooms_by_id[room_id].users, src)
       /\ Contains(users_by_id[src].send_buff, text)
       /\ ~Contains(users_by_id[r].send_buff, text)
       /\ \E i \in 1..Len(users_by_id[r].send_buff) :
            users_by_id[r].send_buff[i].what = "join"

NoDuplicate(v) == \A i, j \in 1..Len(v) : v[i] = v[j] => i = j

\* C14: in every room the ban list and the invite list are disjoint and
\* neither holds an id twice
C14_BansInvitesDisjoint ==
  \A R \in DOMAIN rooms_by_id :
    /\ \A i \in 1..Len(rooms_by_id[R].bans) :
         ~Contains(rooms_by_id[R].invites, rooms_by_id[R].bans[i])
    /\ NoDuplicate(rooms_by_id[R].bans)
    /\ NoDuplicate(rooms_by_id[R].invites)

\* a user kicked from a room has since been invited back: the ban is gone
C14_Witness ==
  \E R \in DOMAIN rooms_by_id, T \in DOMAIN users_by_id :
    /\ is_invited(rooms_by_id[R], T)
    /\ ~is_banned(rooms_by_id[R], T)
    /\ \E i, j \in 1..Len(users_by_id[T].send_buff) :
         /\ i < j
         /\ users_by_id[T].send_buff[i].what = "kick_you"
         /\ users_by_id[T].send_buff[j].what = "You have been invited to join {}."

StrictlyIncreasing(v) == \A i \in 1..(Len(v) - 1) : v[i] < v[i + 1]

\* the reply the handler of the latest turn put in the caller's send buffer
LastReply(U) == users_by_id'[U].send_buff[Len(users_by_id'[U].send_buff)].what

\* the step dispatched a message of kind t that names an existing user other
\* than the caller
NamesPeer(t) ==
  /\ Dispatched(t)
  /\ collapse(turns'[Len(turns')].msg.arg) \in DOMAIN user_ids_by_str
  /\ user_ids_by_str[collapse(turns'[Len(turns')].msg.arg)] # Head(user_id_list)
  /\ user_ids_by_str[collapse(turns'[Len(turns')].msg.arg)] \in DOMAIN users_by_id

\* C15: every block list is strictly increasing; Block of an id succeeds
\* exactly when the id was absent and adds it, Unblock succeeds exactly when
\* it was present and removes it, and a failing call changes nothing
C15_BlockListSorted ==
  [][ /\ \A u \in DOMAIN users_by_id' : StrictlyIncreasing(users_by_id'[u].blocks)
      /\ NamesPeer("Block") =>
           LET U == Head(user_id_list)
               T == user_ids_by_str[collapse(turns'[Len(turns')].msg.arg)]
               was == Contains(users_by_id[U].blocks, T)
           IN /\ (LastReply(U) = "You are now blocking {}.") <=> ~was
              /\ (LastReply(U) = "You are already blocking {}.") <=> was
              /\ Contains(users_by_id'[U].blocks, T)
              /\ Len(users_by_id'[U].blocks) =
                   Len(users_by_id[U].blocks) + (IF was THEN 0 ELSE 1)
              /\ \A i \in 1..Len(users_by_id[U].blocks) :
                   Contains(users_by_id'[U].blocks, users_by_id[U].blocks[i])
      /\ NamesPeer("Unblock") =>
           LET U == Head(user_id_list)
               T == user_ids_by_str[collapse(turns'[Len(turns')].msg.arg)]
               was == Contains(users_by_id[U].blocks, T)
           IN /\ (LastReply(U) = "You are no longer blocking {}.") <=> was
              /\ (LastReply(U) = "You are not blocking {}.") <=> ~was
              /\ ~Contains(users_by_id'[U].blocks, T)
              /\ Len(users_by_id'[U].blocks) =
                   Len(users_by_id[U].blocks) - (IF was THEN 1 ELSE 0)
              /\ \A i \in 1..Len(users_by_id'[U].blocks) :
                   Contains(users_by_id[U].blocks, users_by_id'[U].blocks[i]) ]_vars

\* a user that blocks two others has just blocked the one with the smaller id
C15_Witness ==
  /\ pc = "members"
  /\ turns # <<>>
  /\ turns[Len(turns)].msg.t = "Block"
  /\ turns[Len(turns)].uid \in DOMAIN users_by_id
  /\ LET blocks == users_by_id[turns[Len(turns)].uid].blocks IN
     /\ Len(blocks) = 2
     /\ turns[Len(turns)].msg.arg = UserN(blocks[1])

\* the member whose pass a step of the member loop is, and what the pass read
Pass == pc = "members" /\ user_id_list # <<>> /\ user_id_list' = Tail(user_id_list)
                      /\ Len(turns') = Len(turns) + 1

Counted == {"Text", "Priv", "Name", "Join"}

\* C16: a pass that decodes a Text, Priv, Name or Join adds to the quota
\* counter (as the tick's drain left it) exactly the bytes the message took
\* from the receive buffer; a pass that decodes another kind, or nothing,
\* adds nothing
C16_QuotaCountsConsumedBytes ==
  [][ Pass /\ Head(user_id_list) \in DOMAIN users_by_id'
        => LET U == Head(user_id_list)
               read == turns'[Len(turns')]
               n_buff == users_by_id[U].recv_buff + read.n
               consumed == n_buff - users_by_id'[U].recv_buff
               drained == drain_byte_quota(users_by_id[U], cfg.byte_tick).quota_bytes
           IN users_by_id'[U].quota_bytes =
                IF read.got.t \in Counted THEN drained + consumed ELSE drained ]_vars

\* a counted message was decoded and a byte that followed it stays buffered
C16_Witness ==
  /\ pc = "members"
  /\ turns # <<>>
  /\ turns[Len(turns)].got.t = "Text"
  /\ turns[Len(turns)].n = 2
  /\ turns[Len(turns)].uid \in DOMAIN users_by_id
  /\ users_by_id[turns[Len(turns)].uid].recv_buff = 1
  /\ users_by_id[turns[Len(turns)].uid].quota_bytes = 2

Exceeded == Sndr("Err", "You have exceeded your data quota.", <<>>)

\* the pass put the quota warning into the send buffer of U
Warned(U) ==
  \E i \in (Len(users_by_id[U].send_buff) + 1)..Len(users_by_id'[U].send_buff) :
     users_by_id'[U].send_buff[i] = Exceeded

\* the pass handed the message it decoded to its handler
Accepted == turns'[Len(turns')].msg # None

\* C17 as stated: a counted message that leaves the counter at byte_limit is
\* accepted without the warning, and the next counted message decoded from
\* that user is accepted and gets the warning
C17_NextMessageWarns ==
  [][ Pass /\ turns'[Len(turns')].got.t \in Counted
        => LET U == Head(user_id_list) IN
           /\ users_by_id'[U].quota_bytes = cfg.byte_limit => Accepted /\ ~Warned(U)
           /\ users_by_id[U].quota_mark = "at_limit" => Accepted /\ Warned(U) ]_vars

\* C17, amended: a counted message that leaves the counter at byte_limit,
\* decoded in a pass that began with the counter at or below byte_limit, is
\* accepted without the warning, and the next counted message decoded from
\* that user is accepted; it gets the warning exactly when the counter, after
\* the drains of the passes in between and the bytes of that message, is
\* above byte_limit
C17_NextMessageWarnsIfAbove ==
  [][ Pass /\ turns'[Len(turns')].got.t \in Counted
        => LET U == Head(user_id_list) IN
           /\ (/\ users_by_id[U].quota_bytes <= cfg.byte_limit
               /\ users_by_id'[U].quota_bytes = cfg.byte_limit) => Accepted /\ ~Warned(U)
           /\ users_by_id[U].quota_mark = "at_limit"
                => /\ Accepted
                   /\ Warned(U) <=> users_by_id'[U].quota_bytes > cfg.byte_limit ]_vars

\* the counted message after one that left the counter at byte_limit was
\* accepted and, the counter now above the limit, answered with the warning
C17_Witness ==
  /\ pc = "members"
  /\ turns # <<>>
  /\ turns[Len(turns)].msg.t \in Counted
  /\ LET U == turns[Len(turns)].uid IN
     /\ U \in DOMAIN users_by_id
     /\ users_by_id[U].quota_mark = "after"
     /\ users_by_id[U].quota_bytes > cfg.byte_limit
     /\ users_by_id[U].send_buff # <<>>
     /\ users_by_id[U].send_buff[Len(users_by_id[U].send_buff)] = Exceeded

\* a message has been decoded from U since the main loop last read the clock
\* (the clock of SpecQuota advances with every iteration)
DecodedThisIteration(U) == users_by_id[U].last_msg_time = now

\* C18: within one iteration of the main loop a user has one pass only: a
\* member from whom a message was decoded in this iteration (a Join that took
\* them to another room, say) gets no further pass in it, with its drain of
\* the quota counter and its decode
C18_OnePassPerIteration ==
  [][ Pass => ~DecodedThisIteration(Head(user_id_list)) ]_vars

\* the step is one turn of the listener's loop
Accepts == conn'.n = conn.n + 1

\* the turn sent a session with the connection's id through the channel
Published ==
  /\ Len(urecvr') = Len(urecvr) + 1
  /\ SubSeq(urecvr', 1, Len(urecvr)) = urecvr
  /\ urecvr'[Len(urecvr')].idn = conn'.idn

\* C19: the listener publishes a session exactly when the first message of
\* the connection is a Name, and the session then has that name; after any
\* other first message, an error or the deadline it sends a Logout, shuts
\* the connection down and leaves the channel as it was
C19_PublishedIffName ==
  [][ Accepts
        => /\ Published <=> (conn'.first.ok /\ conn'.first.m.t = "Name")
           /\ Published => /\ urecvr'[Len(urecvr')].name = conn'.first.m.arg
                           /\ conn'.sent = <<>>
                           /\ ~conn'.shutdown
           /\ ~Published => /\ urecvr' = urecvr
                            /\ Len(conn'.sent) = 1
                            /\ conn'.sent[1].k = "Logout"
                            /\ conn'.shutdown ]_vars

\* after a session got in, a connection that began with a Join was sent a
\* Logout and shut down
C19_Witness ==
  /\ DOMAIN users_by_id # {}
  /\ conn.first.ok
  /\ conn.first.m.t = "Join"
  /\ conn.shutdown
  /\ urecvr = <<>>

\* C20 as stated: the first connection gets the id 100, and every later
\* connection an id above the id of the connection before it, so that no id
\* is given twice, a connection whose handshake failed included
C20_IdsNeverReassigned ==
  [][ Accepts
        => IF conn.n = 0 THEN conn'.idn = 100 ELSE conn'.idn > conn.idn ]_vars

\* C20, amended: the first connection gets the id 100; a connection that
\* follows a published session gets the next id, and a connection that
\* follows a failed handshake gets the id of the failed connection again;
\* every published session has an id below the one given out next
C20_PublishedIdsNeverReassigned ==
  [][ Accepts
        => /\ IF conn.n = 0 THEN conn'.idn = 100
              ELSE conn'.idn = IF conn.shutdown THEN conn.idn ELSE conn.idn + 1
           /\ \A uid \in DOMAIN users_by_id : uid < conn'.idn
           /\ \A i \in 1..Len(urecvr) : urecvr[i].idn < conn'.idn ]_vars

\* the second connection got in with the id 100, which the first, whose
\* handshake failed, had been given before it
C20_Witness ==
  /\ conn.n = 2
  /\ conn.idn = 100
  /\ ~conn.shutdown
  /\ Len(urecvr) = 1
  /\ urecvr[1].idn = 100

\* the room name of the Join is one do_join lets pass
GoodRoomName(name) ==
  collapse(name) # <<>> /\ StrLen(name) <= cfg.max_room_name_length

\* the rooms of the map whose normalized name is key
RoomsNamed(map, key) == {R \in DOMAIN map : map[R].idstr = key}

\* C21: a Join that names a room which does not exist creates it under the
\* least non-negative integer that is no key of the room id map, with the
\* requester as its operator and its only member
C21_NewRoomLeastId ==
  [][ ( /\ Dispatched("Join")
        /\ GoodRoomName(turns'[Len(turns')].msg.arg)
        /\ RoomsNamed(rooms_by_id, collapse(turns'[Len(turns')].msg.arg)) = {} )
      => LET U == Head(user_id_list)
             key == collapse(turns'[Len(turns')].msg.arg)
         IN \E id \in DOMAIN rooms_by_id' :
              /\ RoomsNamed(rooms_by_id', key) = {id}
              /\ id \notin DOMAIN rooms_by_id
              /\ \A m \in 0..(id - 1) : m \in DOMAIN rooms_by_id
              /\ rooms_by_id'[id].op = U
              /\ rooms_by_id'[id].users = <<U>>
              /\ key \in DOMAIN room_ids_by_str'
              /\ room_ids_by_str'[key] = id ]_vars

\* a room was created under the id 1 while the ids 0 and 2 were taken
C21_Witness ==
  /\ pc = "members"
  /\ turns # <<>>
  /\ turns[Len(turns)].msg.t = "Join"
  /\ DOMAIN rooms_by_id = {0, 1, 2}
  /\ rooms_by_id[1].idstr = collapse(turns[Len(turns)].msg.arg)
  /\ rooms_by_id[1].users = <<turns[Len(turns)].uid>>
  /\ rooms_by_id[2].users # <<>>
  /\ turns[Len(turns)].uid \in DOMAIN users_by_id
  /\ \E i \in 1..Len(users_by_id[turns[Len(turns)].uid].send_buff) :
        users_by_id[turns[Len(turns)].uid].send_buff[i].what = "You create room {}."

\* number of characters of a string ("user" and the numerals stand for
\* their letters and digits)
CharLen(s) == Len(s) + 3 * Len(SelectSeq(s, LAMBDA c : c = "user"))
                     + 2 * Len(SelectSeq(s, LAMBDA c : c \in Numerals))

\* the step takes a session from the channel and admits it
Admits == pc = "rooms" /\ roomz = {} /\ urecvr # <<>> /\ urecvr' = Tail(urecvr)

\* the handshake name cannot be kept: it is empty after normalization, too
\* long, or its normalized form is taken
NameRefused(u) ==
  \/ collapse(u.name) = <<>>
  \/ CharLen(u.name) > cfg.max_user_name_length
  \/ collapse(u.name) \in DOMAIN user_ids_by_str

\* C22: a session admitted with a handshake name that cannot be kept is
\* renamed user<N> for the least N from its id on such that user<N> is no
\* key of the user-name index; every admitted session is appended to the
\* lobby's members and entered in both user indexes, under a key that no
\* user held
C22_AdmittedUnderFreeName ==
  [][ Admits
      => LET u == Head(urecvr)
             id == u.idn
         IN /\ id \in DOMAIN users_by_id' /\ id \notin DOMAIN users_by_id
            /\ LET name == users_by_id'[id].name
                   key == collapse(name)
               IN /\ IF NameRefused(u)
                     THEN \E N \in id..(id + Cardinality(DOMAIN user_ids_by_str)) :
                            /\ name = UserN(N)
                            /\ UserN(N) \notin DOMAIN user_ids_by_str
                            /\ \A M \in id..(N - 1) : UserN(M) \in DOMAIN user_ids_by_str
                     ELSE name = u.name
                  /\ users_by_id'[id].idstr = key
                  /\ key \notin DOMAIN user_ids_by_str
                  /\ DOMAIN user_ids_by_str' = DOMAIN user_ids_by_str \cup {key}
                  /\ user_ids_by_str'[key] = id
                  /\ \A k \in DOMAIN user_ids_by_str : user_ids_by_str'[k] = user_ids_by_str[k]
            /\ DOMAIN users_by_id' = DOMAIN users_by_id \cup {id}
            /\ rooms_by_id'[0].users = Append(rooms_by_id[0].users, id) ]_vars

\* the session 101 was admitted as user102, the name user101 being taken
C22_Witness ==
  /\ pc = "loop"
  /\ 100 \in DOMAIN users_by_id
  /\ 101 \in DOMAIN users_by_id
  /\ users_by_id[100].name = UserN(101)
  /\ users_by_id[101].name = UserN(102)
  /\ Contains(rooms_by_id[0].users, 101)

\* the candidate of a Name cannot be taken: its normalized form is empty,
\* it is too long, or its normalized form is indexed to another user
Rejected(candidate, U) ==
  \/ collapse(candidate) = <<>>
  \/ CharLen(candidate) > cfg.max_user_name_length
  \/ /\ collapse(candidate) \in DOMAIN user_ids_by_str
     /\ user_ids_by_str[collapse(candidate)] # U

\* C23: a rejected Name leaves the caller's name, normalized name and both
\* user indexes as they were, and produces one Err addressed to the caller
\* and nothing for the room
C23_RejectedNameChangesNothing ==
  [][ Dispatched("Name") /\ Rejected(turns'[Len(turns')].msg.arg, Head(user_id_list))
      => LET U == Head(user_id_list) IN
         /\ DOMAIN users_by_id' = DOMAIN users_by_id
         /\ \A V \in DOMAIN users_by_id :
              /\ users_by_id'[V].name = users_by_id[V].name
              /\ users_by_id'[V].idstr = users_by_id[V].idstr
         /\ user_ids_by_str' = user_ids_by_str
         /\ Len(envs') = Len(envs) + 1
         /\ SubSeq(envs', 1, Len(envs)) = envs
         /\ envs'[Len(envs')].dest = EndUser(U)
         /\ envs'[Len(envs')].msg.k = "Err"
         /\ \A R \in DOMAIN rooms_by_id : rooms_by_id'[R].inbox = rooms_by_id[R].inbox
         /\ DOMAIN rooms_by_id' = DOMAIN rooms_by_id ]_vars

\* a Name whose normalized form another user holds was answered with the
\* Err, and both users have the names they had
C23_Witness ==
  /\ pc = "members"
  /\ turns # <<>>
  /\ turns[Len(turns)].msg.t = "Name"
  /\ envs # <<>>
  /\ envs[Len(envs)].msg.what = "There is already a user named {}."
  /\ envs[Len(envs)].dest = EndUser(turns[Len(turns)].uid)
  /\ collapse(turns[Len(turns)].msg.arg) \in DOMAIN user_ids_by_str
  /\ user_ids_by_str[collapse(turns[Len(turns)].msg.arg)] # turns[Len(turns)].uid

\* C24: a Name whose candidate has exactly max_user_name_length characters,
\* with a normalized form that is not empty and that no other user holds,
\* becomes the caller's name, and one whose candidate has one character more
\* leaves the caller's name as it was, whatever the bytes of the characters
C24_NameLengthInCharacters ==
  [][ Dispatched("Name")
      => LET U == Head(user_id_list)
             c == turns'[Len(turns')].msg.arg
         IN /\ ( /\ CharLen(c) = cfg.max_user_name_length
                 /\ collapse(c) # <<>>
                 /\ ~( /\ collapse(c) \in DOMAIN user_ids_by_str
                       /\ user_ids_by_str[collapse(c)] # U ) )
               => /\ users_by_id'[U].name = c
                  /\ users_by_id'[U].idstr = collapse(c)
            /\ CharLen(c) = cfg.max_user_name_length + 1
               => /\ users_by_id'[U].name = users_by_id[U].name
                  /\ users_by_id'[U].name # c ]_vars

\* the message the pass put last into the send buffer of U
Reply(U) == users_by_id'[U].send_buff[Len(users_by_id'[U].send_buff)]

\* C25: a Block naming another user who is not yet blocked adds the id to
\* the caller's block list and is answered with an Info; from then on the id
\* is in the list, and a Block of that user again is answered with the Err
\* "You are already blocking" and leaves the list as it is, time after time
C25_BlockTwice ==
  [][ NamesPeer("Block")
      => LET U == Head(user_id_list)
             T == user_ids_by_str[collapse(turns'[Len(turns')].msg.arg)]
         IN /\ Contains(users_by_id'[U].blocks, T)
            /\ IF Contains(users_by_id[U].blocks, T)
               THEN /\ users_by_id'[U].blocks = users_by_id[U].blocks
                    /\ Reply(U).k = "Err"
                    /\ Reply(U).what = "You are already blocking {}."
                    /\ Len(users_by_id'[U].send_buff) = Len(users_by_id[U].send_buff) + 1
               ELSE /\ Reply(U).k = "Info"
                    /\ Len(users_by_id'[U].send_buff) = Len(users_by_id[U].send_buff) + 1
                    /\ Len(users_by_id'[U].blocks) = Len(users_by_id[U].blocks) + 1 ]_vars

\* a Block of a user the caller blocks already was answered with the Err
C25_Witness ==
  /\ pc = "members"
  /\ turns # <<>>
  /\ turns[Len(turns)].msg.t = "Block"
  /\ turns[Len(turns)].uid \in DOMAIN users_by_id
  /\ LET u == users_by_id[turns[Len(turns)].uid] IN
     /\ Len(u.blocks) = 1
     /\ turns[Len(turns)].msg.arg = UserN(u.blocks[1])
     /\ u.send_buff # <<>>
     /\ u.send_buff[Len(u.send_buff)].what = "You are already blocking {}."

\* C26: a session that process_room logs out by force (silence, or a
\* communication error) is dropped with its Logout(reason) handed to the
\* socket by a flush: the Logout is not among what the dropped session's
\* send buffer still held
C26_ForcedLogoutFlushed ==
  \A i \in 1..Len(dropped) :
    \A j \in 1..Len(dropped[i].unsent) : dropped[i].unsent[j].k # "Logout"

\* C27: a handler runs for a user in process_room(R) only while the user is
\* a member of R: a member taken out of R earlier in the same process_room
\* (kicked by a member whose pass came first) has no message handled there
C27_HandledOnlyAsMember ==
  [][ Pass /\ Accepted
      => Contains(rooms_by_id[room_id].users, Head(user_id_list)) ]_vars

\* C28: when an iteration of the main loop is over, every id in the member
\* list of every room is a key of the user id map
C28_MembersAreUsers ==
  pc = "loop" =>
    \A R \in DOMAIN rooms_by_id :
      \A i \in 1..Len(rooms_by_id[R].users) :
        rooms_by_id[R].users[i] \in DOMAIN users_by_id

MaySendAgain == Sndr("Err", "You may send messages again.", <<>>)

\* C29: a message decoded in a pass goes to its handler exactly when the
\* user's counter was at most byte_limit when the pass began, before the
\* drain; otherwise the message, of whatever kind, is discarded: nothing is
\* returned or enqueued, no user, room or index changes, and the user is
\* sent nothing for it (the notice that the counter is back under the limit
\* aside, which the drain sends before the read)
C29_DispatchedIffNotOverQuota ==
  [][ Pass /\ turns'[Len(turns')].got # None
      => LET U == Head(user_id_list)
             over == users_by_id[U].quota_bytes > cfg.byte_limit
         IN /\ Accepted <=> ~over
            /\ over => /\ envs' = envs
                       /\ rooms_by_id' = rooms_by_id
                       /\ room_ids_by_str' = room_ids_by_str
                       /\ user_ids_by_str' = user_ids_by_str
                       /\ logout_users' = logout_users
                       /\ DOMAIN users_by_id' = DOMAIN users_by_id
                       /\ \A V \in DOMAIN users_by_id \ {U} : users_by_id'[V] = users_by_id[V]
                       /\ users_by_id'[U].send_buff \in
                            {users_by_id[U].send_buff,
                             Append(users_by_id[U].send_buff, MaySendAgain)} ]_vars

\* a Logout was decoded from a user over quota, who is still a user
C29_Witness ==
  /\ pc = "members"
  /\ turns # <<>>
  /\ turns[Len(turns)].got.t = "Logout"
  /\ turns[Len(turns)].msg = None
  /\ turns[Len(turns)].uid \in DOMAIN users_by_id

\* the member loop of process_room is over and the operator of the processed
\* room, which is not the Lobby, is no member of it, while it has members
OpGone ==
  /\ pc = "members"
  /\ user_id_list = <<>>
  /\ room_id # 0
  /\ room_id \in DOMAIN rooms_by_id
  /\ rooms_by_id[room_id].users # <<>>
  /\ ~Contains(rooms_by_id[room_id].users, rooms_by_id[room_id].op)

\* the notice of the promotion of the user U
NowOperator(U) ==
  Sndr("Info", "{} is now the Room operator.", <<users_by_id'[U].name>>)

\* C30: when the member loop of process_room(R), R not the Lobby, ends with
\* R's operator outside R's member list and R has members, the first member
\* that remains becomes the operator and the members are sent the Info
\* "<name> is now the Room operator."
C30_FirstRemainingPromoted ==
  [][ (OpGone /\ pc' = "send" /\ rooms_by_id'[room_id].users # <<>>)
        => LET room == rooms_by_id'[room_id]
               first == room.users[1]
           IN /\ room.op = first
              /\ first \in DOMAIN users_by_id'
              /\ \A uid \in DOMAIN users_by_id' :
                    Contains(room.users, uid)
                      => Contains(users_by_id'[uid].send_buff, NowOperator(first)) ]_vars

\* the pass put the notice that ends the quota penalty into the send buffer of U
Released(U) ==
  \E i \in (Len(users_by_id[U].send_buff) + 1)..Len(users_by_id'[U].send_buff) :
     users_by_id'[U].send_buff[i] = MaySendAgain

\* C31: the quota warnings and the "You may send messages again." notices of
\* a user alternate, starting with a warning: a notice follows a warning and
\* a warning follows a notice or nothing
C31_NoticesAlternate ==
  [][ Pass /\ Head(user_id_list) \in DOMAIN users_by_id'
        => LET U == Head(user_id_list) IN
           /\ Released(U) => users_by_id[U].quota_note = "exceeded"
           /\ Warned(U) => users_by_id[U].quota_note \in {"none", "again"} ]_vars

\* the rooms that list the user
RoomsOf(uid) == {rid \in DOMAIN rooms_by_id : Contains(rooms_by_id[rid].users, uid)}

\* C32: when an iteration of the main loop is over, every user of the user
\* id map is in the member list of at least one room
C32_EveryUserInARoom ==
  pc = "loop" => \A uid \in DOMAIN users_by_id : RoomsOf(uid) # {}

\* two users are live between two iterations, one of them outside the Lobby
C32_Witness ==
  /\ pc = "loop"
  /\ Cardinality(DOMAIN users_by_id) = 2
  /\ \E uid \in DOMAIN users_by_id : RoomsOf(uid) # {} /\ 0 \notin RoomsOf(uid)

\* C33: in no room is an id of the member list in the ban list
C33_NoBannedMember ==
  \A rid \in DOMAIN rooms_by_id :
    \A i \in 1..Len(rooms_by_id[rid].users) :
      ~Contains(rooms_by_id[rid].bans, rooms_by_id[rid].users[i])

\* a user banned from the room g has sent Join(g) from the Lobby and is
\* listed in the Lobby only
C33_Witness ==
  /\ pc = "members"
  /\ room_id = 0
  /\ turns # <<>>
  /\ turns[Len(turns)].msg = Rcvr("Join", "", <<"g">>)
  /\ <<"g">> \in DOMAIN room_ids_by_str
  /\ Contains(rooms_by_id[room_ids_by_str[<<"g">>]].bans, turns[Len(turns)].uid)
  /\ RoomsOf(turns[Len(turns)].uid) = {0}

\* the step is a pass that dispatched Op(Give(name)) of the operator of the
\* room being processed
GiveByOperator ==
  /\ Dispatched("Op")
  /\ turns'[Len(turns')].msg.op = "Give"
  /\ rooms_by_id[room_id].op = Head(user_id_list)

\* the user the name of the dispatched message stands for (0: nobody)
Named ==
  LET str == collapse(turns'[Len(turns')].msg.arg) IN
  IF str \in DOMAIN user_ids_by_str THEN user_ids_by_str[str] ELSE 0

NewOp(T) ==
  Sndr("Misc", "new_op", <<users_by_id[T].name, rooms_by_id[room_id].name>>)

\* C34: Give(name) of the operator of R makes the named user T the operator
\* exactly when T exists, is not the caller and is a member of R; R's members
\* are then sent new_op (the envelope to the room reaches every member when
\* process_room delivers) and the caller is operator no more; in every other
\* case the rooms are unchanged and the caller gets one Info or Err and
\* nobody else anything
C34_GiveTransfersToMember ==
  [][ /\ (pc = "members" /\ pc' = "send")
           => \A i \in 1..Len(envs) :
                (envs[i].dest = EndRoom(room_id) /\ envs[i].msg.what = "new_op")
                  => \A V \in DOMAIN users_by_id' :
                       Contains(rooms_by_id'[room_id].users, V)
                         => Contains(users_by_id'[V].send_buff, envs[i].msg)
      /\ GiveByOperator
      => LET U == Head(user_id_list)
             T == Named
             ok == T # 0 /\ T # U /\ Contains(rooms_by_id[room_id].users, T)
         IN
         /\ room_ids_by_str' = room_ids_by_str
         /\ user_ids_by_str' = user_ids_by_str
         /\ DOMAIN users_by_id' = DOMAIN users_by_id
         /\ \A V \in DOMAIN users_by_id \ {U} : users_by_id'[V] = users_by_id[V]
         /\ users_by_id'[U].send_buff = users_by_id[U].send_buff
         /\ IF ok
            THEN /\ rooms_by_id' = [rooms_by_id EXCEPT ![room_id].op = T]
                 /\ ~is_operator(rooms_by_id'[room_id], U)
                 /\ envs' = Append(envs, Env(Server, EndRoom(room_id), NewOp(T)))
            ELSE /\ rooms_by_id' = rooms_by_id
                 /\ \E m \in {envs'[i].msg : i \in 1..Len(envs')} :
                       /\ m.k \in {"Info", "Err"}
                       /\ envs' = Append(envs, Env(Server, EndUser(U), m)) ]_vars

\* the operator of g has given the room to another member
C34_Witness ==
  /\ pc = "members"
  /\ room_id # 0
  /\ turns # <<>>
  /\ turns[Len(turns)].msg.op = "Give"
  /\ turns[Len(turns)].returned # <<>>
  /\ turns[Len(turns)].returned[1].what = "new_op"
  /\ rooms_by_id[room_id].op # turns[Len(turns)].uid
  /\ Contains(rooms_by_id[room_id].users, turns[Len(turns)].uid)

\* the step is a pass that dispatched Op(op), naming another user who
\* exists, of the operator of the room being processed
OperatorNames(op) ==
  /\ DispatchedOp(op)
  /\ rooms_by_id[room_id].op = Head(user_id_list)
  /\ Named \in DOMAIN users_by_id
  /\ Named # Head(user_id_list)

\* the room the dispatched Join names (0 when there is none of that name;
\* the Lobby is never closed and bans nobody)
Target ==
  LET str == collapse(turns'[Len(turns')].msg.arg) IN
  IF str \in DOMAIN room_ids_by_str THEN room_ids_by_str[str] ELSE 0

\* C35: Invite of a kicked user leaves them invited and not banned, and their
\* later Join succeeds even if the room is closed; Kick of an invited user
\* leaves them banned and not invited, and their later Join is refused; in
\* between, only a Kick or an Invite that names them changes whether they are
\* banned or invited
C35_LastOfKickAndInviteDecides ==
  [][ /\ (OperatorNames("Invite") /\ Contains(rooms_by_id[room_id].bans, Named))
           => /\ Contains(rooms_by_id'[room_id].invites, Named)
              /\ ~Contains(rooms_by_id'[room_id].bans, Named)
      /\ (OperatorNames("Kick") /\ Contains(rooms_by_id[room_id].invites, Named))
           => /\ Contains(rooms_by_id'[room_id].bans, Named)
              /\ ~Contains(rooms_by_id'[room_id].invites, Named)
      /\ (Dispatched("Join") /\ Target # 0)
           => LET T == Head(user_id_list)
                  R == Target
              IN /\ (Contains(rooms_by_id[R].invites, T) /\ ~Contains(rooms_by_id[R].bans, T))
                      => Contains(rooms_by_id'[R].users, T)
                 /\ Contains(rooms_by_id[R].bans, T)
                      => /\ rooms_by_id'[R].users = rooms_by_id[R].users
                         /\ ~Contains(rooms_by_id'[R].users, T)
      /\ \A R \in DOMAIN rooms_by_id \cap DOMAIN rooms_by_id' :
           \A T \in DOMAIN users_by_id :
             (\/ Contains(rooms_by_id'[R].bans, T) # Contains(rooms_by_id[R].bans, T)
              \/ Contains(rooms_by_id'[R].invites, T) # Contains(rooms_by_id[R].invites, T))
               => /\ R = room_id
                  /\ OperatorNames("Kick") \/ OperatorNames("Invite")
                  /\ Named = T ]_vars

\* a user who was kicked from the room g and then invited has joined it
\* again while it is closed
C35_Witness ==
  /\ pc = "members"
  /\ room_id = 0
  /\ turns # <<>>
  /\ turns[Len(turns)].msg = Rcvr("Join", "", <<"g">>)
  /\ <<"g">> \in DOMAIN room_ids_by_str
  /\ LET g == rooms_by_id[room_ids_by_str[<<"g">>]] IN
     /\ g.closed
     /\ Contains(g.invites, turns[Len(turns)].uid)
     /\ Contains(g.users, turns[Len(turns)].uid)
     /\ g.op # turns[Len(turns)].uid

\* what the pass has added to the send buffer of r
Gained(r) ==
  SubSeq(users_by_id'[r].send_buff, Len(users_by_id[r].send_buff) + 1,
         Len(users_by_id'[r].send_buff))

\* C36: a Priv that names an existing user R yields two envelopes, a
\* priv_echo for the sender S and a Priv under S's name for R; when
\* process_room delivers, the echo reaches S and the Priv reaches R, in
\* whichever room R is, unless R blocks S, and then R gets nothing.  A Priv
\* whose name is blank or nobody's yields one Err for S.  The handler itself
\* changes no room, no index and no send buffer
C36_PrivEchoAndMessage ==
  [][ /\ Dispatched("Priv")
           => LET S == Head(user_id_list)
                  R == Named
                  echo == Env(Server, EndUser(S),
                              Sndr("Misc", "priv_echo", <<users_by_id'[R].name>>))
                  to == Env(EndUser(S), EndUser(R),
                            Sndr("Priv", "", <<users_by_id'[S].name>>))
              IN /\ rooms_by_id' = rooms_by_id
                 /\ room_ids_by_str' = room_ids_by_str
                 /\ user_ids_by_str' = user_ids_by_str
                 /\ DOMAIN users_by_id' = DOMAIN users_by_id
                 /\ \A V \in DOMAIN users_by_id : Gained(V) = <<>>
                 /\ IF R \in DOMAIN users_by_id
                    THEN envs' = envs \o <<echo, to>>
                    ELSE \E m \in {envs'[i].msg : i \in 1..Len(envs')} :
                           /\ m.k = "Err"
                           /\ envs' = Append(envs, Env(Server, EndUser(S), m))
      /\ (pc = "members" /\ pc' = "send")
           => \A i \in 1..Len(envs) :
                LET e == envs[i] IN
                /\ (e.msg.what = "priv_echo" /\ e.dest.id \in DOMAIN users_by_id')
                     => Contains(Gained(e.dest.id), e.msg)
                /\ (e.msg.k = "Priv" /\ e.dest.id \in DOMAIN users_by_id')
                     => IF Contains(users_by_id'[e.dest.id].blocks, e.source.id)
                        THEN ~Contains(Gained(e.dest.id), e.msg)
                        ELSE Contains(Gained(e.dest.id), e.msg) ]_vars

\* a Priv of a user in the room g, who blocks somebody, has reached its
\* recipient in the Lobby
C36_Witness ==
  /\ pc = "send"
  /\ room_id # 0
  /\ \E i \in 1..Len(envs) :
       /\ envs[i].msg.k = "Priv"
       /\ envs[i].dest.id \in DOMAIN users_by_id
       /\ envs[i].dest.id # envs[i].source.id
       /\ RoomsOf(envs[i].dest.id) = {0}
       /\ Contains(users_by_id[envs[i].dest.id].send_buff, envs[i].msg)
       /\ users_by_id[envs[i].source.id].blocks # <<>>

\* the ids of the sessions waiting in the channel
Waiting == {urecvr[i].idn : i \in 1..Len(urecvr)}

\* the step admits the session u: it joins the Lobby as its last member and
\* is entered in both user indexes
JoinsLobby(u) ==
  /\ u.idn \notin DOMAIN users_by_id
  /\ u.idn \in DOMAIN users_by_id'
  /\ rooms_by_id'[0].users = Append(rooms_by_id[0].users, u.idn)
  /\ \E str \in DOMAIN user_ids_by_str' : user_ids_by_str'[str] = u.idn

\* C37: the sessions the listener publishes are admitted in the order of
\* publication, at most one in an iteration of the main loop, each into the
\* Lobby and both user indexes; the listener changes no room, no user and no
\* index; and with a main loop that keeps running every published session
\* is admitted in the end
C37_ChannelFifoAndAdmitted ==
  /\ [][ /\ urecvr' # urecvr
             => \/ /\ Len(urecvr') = Len(urecvr) + 1
                   /\ SubSeq(urecvr', 1, Len(urecvr)) = urecvr
                   /\ UNCHANGED <<users_by_id, user_ids_by_str, rooms_by_id,
                                  room_ids_by_str, pc>>
                \/ /\ urecvr # <<>>
                   /\ urecvr' = Tail(urecvr)
                   /\ JoinsLobby(Head(urecvr))
                   /\ pc = "rooms" /\ pc' = "loop"
         /\ DOMAIN users_by_id' \ DOMAIN users_by_id # {}
             => /\ urecvr # <<>>
                /\ DOMAIN users_by_id' \ DOMAIN users_by_id = {Head(urecvr).idn}
                /\ urecvr' = Tail(urecvr)
         /\ conn' # conn
             => UNCHANGED <<users_by_id, user_ids_by_str, rooms_by_id, room_ids_by_str>>
      ]_vars
  /\ \A id \in 100..(100 + MaxNamed) :
       (id \in Waiting) ~> (id \in DOMAIN users_by_id)

\* a session that waited in the channel behind another has been admitted
\* while a third one waits
C37_Witness ==
  /\ pc = "loop"
  /\ 101 \in DOMAIN users_by_id
  /\ 100 \in DOMAIN users_by_id
  /\ rooms_by_id[0].users = <<100, 101>>
  /\ 102 \in Waiting

\* C38: the Lobby always has the operator id 0, is open and has no bans and
\* no invitations
C38_LobbyUnmoderated ==
  /\ 0 \in DOMAIN rooms_by_id
  /\ rooms_by_id[0].op = 0
  /\ ~rooms_by_id[0].closed
  /\ rooms_by_id[0].bans = <<>>
  /\ rooms_by_id[0].invites = <<>>

\* a member of the Lobby has sent an Op subcommand there while another room
\* is closed
C38_Witness ==
  /\ pc = "members"
  /\ room_id = 0
  /\ turns # <<>>
  /\ turns[Len(turns)].msg.t = "Op"
  /\ \E rid \in DOMAIN rooms_by_id : rooms_by_id[rid].closed

\* the names of the ids of uids, in order, leaving out the id skip
RECURSIVE NamesOf(_, _)
NamesOf(uids, skip) ==
  IF uids = <<>> THEN <<>>
  ELSE IF Head(uids) = skip THEN NamesOf(Tail(uids), skip)
  ELSE <<users_by_id[Head(uids)].name>> \o NamesOf(Tail(uids), skip)

\* C39: the data of the reply to Query "roster" holds the name of each
\* member of the room exactly once: the operator's first and then the other
\* members' in the order of the member list, or, in the Lobby, all members'
\* in that order
C39_RosterListsMembersOnce ==
  [][ (Dispatched("Query") /\ turns'[Len(turns')].msg.op = "roster")
      => LET room == rooms_by_id[room_id]
             data == envs'[Len(envs')].msg.data
         IN /\ Len(envs') = Len(envs) + 1
            /\ envs'[Len(envs')].msg.what = "roster"
            /\ \A i \in 1..Len(room.users) : room.users[i] \in DOMAIN users_by_id
            /\ room.op # 0 => room.op \in DOMAIN users_by_id
            /\ \A i \in 1..Len(room.users) :
                 Cardinality({j \in 1..Len(data) :
                                data[j] = users_by_id[room.users[i]].name}) = 1
            /\ data = IF room.op # 0
                      THEN <<users_by_id[room.op].name>> \o NamesOf(room.users, room.op)
                      ELSE NamesOf(room.users, 0) ]_vars

\* what the buffer holds once the first i of the messages written into it
\* are taken away
Remaining(i) ==
  Concat(SubSeq(sock.wire.msgs, i + 1, Len(sock.wire.msgs))) \o sock.wire.rest

\* C40: with k complete messages and the beginning of another in the
\* receive buffer, the first k calls of try_get return the k messages in
\* order, each taking exactly the bytes of its message out of the buffer,
\* and the next call returns none and leaves the beginning where it was
C40_DecodesInOrder ==
  \A i \in 1..Len(sock.got) :
    IF i <= Len(sock.wire.msgs)
    THEN /\ sock.got[i].res = "msg"
         /\ sock.got[i].m = value_of(sock.wire.msgs[i])
         /\ sock.got[i].current = Remaining(i)
    ELSE /\ i = Len(sock.wire.msgs) + 1
         /\ sock.got[i].res = "none"
         /\ sock.got[i].current = sock.wire.rest

\* two messages, the second one after a newline, and the beginning of a
\* third that holds a newline too: three calls have been made
C40_Witness ==
  /\ Len(sock.wire.msgs) = 2
  /\ sock.wire.msgs[1] = <<"{", "x", "}", "nl">>
  /\ sock.wire.rest = <<"{", "nl", "x">>
  /\ Len(sock.got) = 3
  /\ sock.current = sock.wire.rest

====
